---- MODULE Spec2Model ----
(***************************************************************************)
(* Version store, conflict policy, rollback and read-through cache of the  *)
(* icon library (IconSetManager, StorageLayer, CacheManager and the HTTP   *)
(* routes that wire them).                                                 *)
(***************************************************************************)
EXTENDS Integers, Sequences, FiniteSets, TLC

\* ------------------------------------------------------------------ bounds
Namespaces == {"gd"}
Names == {"home", "menu"}
MaxClock == 2
MaxPatch == 2

\* ------------------------------------------------------------ value space
NoIcon == [null |-> TRUE]
NoMeta == [null |-> TRUE]
NoCache == [null |-> TRUE]
NoVersions == [id \in {} |-> NoIcon]
ParseError == [error |-> "SVG_PARSE_ERROR"]

\* Raw uploads: the root container, the first renderable primitive, the
\* size given by the viewBox and the colour the primitive is painted with.
Svg24 == [root |-> "svg", shape |-> "path", viewBox |-> 24, paint |-> "#000"]
Svg32 == [root |-> "svg", shape |-> "path", viewBox |-> 32, paint |-> "none"]
SvgNoShape == [root |-> "svg", shape |-> "", viewBox |-> 24, paint |-> ""]
NoRaw == [root |-> "", shape |-> "", viewBox |-> 0, paint |-> ""]
RawSVGs ==
  {Svg24, Svg32, SvgNoShape,
   [root |-> "text", shape |-> "", viewBox |-> 0, paint |-> ""]}

\* <<options.conflictStrategy, ICON_CONFLICT_STRATEGY>> as given to addIcon:
\* nothing given, the option alone, the variable alone, the option over the
\* variable, and a value that is neither 'reject' nor 'overwrite'.
StrategyInputs ==
  {<<"undefined", "undefined">>, <<"reject", "overwrite">>,
   <<"overwrite", "undefined">>, <<"undefined", "overwrite">>,
   <<"merge", "undefined">>}

\* ------------------------------------------------------------- SVGParser
ValidateSVG(raw) == raw.root = "svg"

ReplaceColorsWithCurrentColor(paint) ==
  IF paint \in {"", "none", "currentColor"} THEN paint ELSE "currentColor"

OptimizeSVG(raw) == [raw EXCEPT !.paint = ReplaceColorsWithCurrentColor(@)]

ExtractBody(svg) == <<svg.shape, svg.paint>>

\* Variant: an SVG without a renderable element is converted all the same.
ParseSVGWithoutShapeCheck(raw) ==
  IF ~ValidateSVG(raw) THEN ParseError
  ELSE LET optimized == OptimizeSVG(raw)
       IN  [body |-> ExtractBody(optimized),
            width |-> optimized.viewBox,
            height |-> optimized.viewBox]

ParseSVG(raw) ==
  IF ~ValidateSVG(raw) THEN ParseError
  ELSE LET optimized == OptimizeSVG(raw)
       IN  IF optimized.shape = "" THEN ParseError
           ELSE [body |-> ExtractBody(optimized),
                 width |-> optimized.viewBox,
                 height |-> optimized.viewBox]

\* ---------------------------------------------------------- StorageLayer
\* One file per icon, one file per (icon, version id), one metadata file.
SaveIcon(ic, name, data) == [ic EXCEPT ![name] = data]

ReadIcon(ic, name) == ic[name]

\* Variant: deleting one icon clears the whole icons directory.
DeleteIconClearsDirectory(ic, name) == [n \in Names |-> NoIcon]

DeleteIcon(ic, name) == [ic EXCEPT ![name] = NoIcon]

ListIcons(ic) == {n \in Names : ic[n] # NoIcon}

SaveIconVersion(vs, name, versionId, data) ==
  [vs EXCEPT ![name] = (versionId :> data) @@ @]

ListIconVersions(vs, name) == DOMAIN vs[name]

\* Variant: a missing version id falls back to the newest version.
ReadIconVersionOrLatest(vs, name, versionId) ==
  IF versionId \in DOMAIN vs[name] THEN vs[name][versionId]
  ELSE IF DOMAIN vs[name] = {} THEN NoIcon
  ELSE vs[name][CHOOSE v \in DOMAIN vs[name] : \A w \in DOMAIN vs[name] : w <= v]

ReadIconVersion(vs, name, versionId) ==
  IF versionId \in DOMAIN vs[name] THEN vs[name][versionId] ELSE NoIcon

\* ------------------------------------------------------- IconSetManager
\* Variant: the default strategy is 'overwrite'.
ConflictStrategyDefaultOverwrite(opt, env) ==
  IF opt # "undefined" THEN opt
  ELSE IF env # "undefined" THEN env
  ELSE "overwrite"

ConflictStrategy(opt, env) ==
  IF opt # "undefined" THEN opt
  ELSE IF env # "undefined" THEN env
  ELSE "reject"

IncrementVersionKeepsPatch(version, t) ==
  IF Len(version) = 3 THEN version
  ELSE <<1, 0, t>>

IncrementVersion(version, t) ==
  IF Len(version) = 3 THEN [version EXCEPT ![3] = @ + 1]
  ELSE <<1, 0, t>>

UpdateMetadataCountsUp(ic, existing, t) ==
  [total |-> IF existing # NoMeta THEN existing.total + 1 ELSE 1,
   version |-> IF existing # NoMeta THEN IncrementVersion(existing.version, t)
               ELSE <<1, 0, 0>>,
   lastModified |-> t]

UpdateMetadata(ic, existing, t) ==
  [total |-> Cardinality(ListIcons(ic)),
   version |-> IF existing # NoMeta THEN IncrementVersion(existing.version, t)
               ELSE <<1, 0, 0>>,
   lastModified |-> t]

\* The version id saveVersion derives from the millisecond clock.
VersionId(t) == t

LoadIconSet(ns, ic, m, t) ==
  [prefix |-> ns,
   icons |-> [n \in ListIcons(ic) |-> ReadIcon(ic, n)],
   lastModified |-> IF m # NoMeta THEN m.lastModified ELSE t]

\* ------------------------------------------------------- FigmaIntegrator
\* retryConfig.
MaxRetries == 3
InitialDelayMs == 1000
MaxDelayMs == 10000

\* A failure of a remote request as categorizeError looks at it: an axios
\* error or not, a timeout (code ECONNABORTED or 'timeout' in the message),
\* with or without a response, and the response's status.
AxiosError(timeout, hasResponse, status) ==
  [isAxios |-> TRUE, timeout |-> timeout, hasResponse |-> hasResponse,
   status |-> status, message |-> "axios"]

\* An Error thrown by the integrator's own code.
PlainError(message) ==
  [isAxios |-> FALSE, timeout |-> FALSE, hasResponse |-> FALSE, status |-> 0,
   message |-> message]

NoError == PlainError("")

\* What one remote request can fail with: a timeout, no response, the
\* statuses 401, 403, 404, 429 and 500, and a 2xx answer the request function
\* finds invalid.
RemoteErrors ==
  {AxiosError(TRUE, FALSE, 0), AxiosError(FALSE, FALSE, 0)}
    \cup {AxiosError(FALSE, TRUE, st) : st \in {401, 403, 404, 429, 500}}
    \cup {PlainError("Invalid response")}

CategorizeError(error) ==
  IF error.isAxios
  THEN IF error.timeout THEN "TIMEOUT_ERROR"
       ELSE IF ~error.hasResponse THEN "NETWORK_ERROR"
       ELSE IF error.status = 401 \/ error.status = 403
            THEN "AUTHENTICATION_ERROR"
       ELSE IF error.status = 404 THEN "NOT_FOUND_ERROR"
       ELSE IF error.status = 429 THEN "RATE_LIMIT_ERROR"
       ELSE "API_ERROR"
  ELSE "UNKNOWN_ERROR"

IsRetryableErrorOrAuthentication(errorType) ==
  errorType \in {"NETWORK_ERROR", "TIMEOUT_ERROR", "RATE_LIMIT_ERROR", "API_ERROR",
                 "AUTHENTICATION_ERROR"}

IsRetryableError(errorType) ==
  errorType \in {"NETWORK_ERROR", "TIMEOUT_ERROR", "RATE_LIMIT_ERROR", "API_ERROR"}

Min(a, b) == IF a < b THEN a ELSE b

CalculateBackoffDelayLinear(attempt) ==
  Min(InitialDelayMs * (attempt + 1), MaxDelayMs)

CalculateBackoffDelay(attempt) ==
  Min(InitialDelayMs * 2 ^ attempt, MaxDelayMs)

ShouldRetryOnceMore(error, attempt) ==
  IsRetryableError(CategorizeError(error)) /\ attempt <= MaxRetries

\* shouldRetry of executeWithRetry's catch block.
ShouldRetry(error, attempt) ==
  IsRetryableError(CategorizeError(error)) /\ attempt < MaxRetries

\* Characters, as the name conversion of syncIcon and syncAllIcons sees them.
UpperCase == <<"A", "B", "C", "D", "E", "F", "G", "H", "I", "J", "K", "L", "M",
               "N", "O", "P", "Q", "R", "S", "T", "U", "V", "W", "X", "Y", "Z">>
LowerCase == <<"a", "b", "c", "d", "e", "f", "g", "h", "i", "j", "k", "l", "m",
               "n", "o", "p", "q", "r", "s", "t", "u", "v", "w", "x", "y", "z">>
WhiteSpace == {" "}

ToLowerCase(ch) ==
  IF \E i \in 1..26 : UpperCase[i] = ch
  THEN LowerCase[CHOOSE i \in 1..26 : UpperCase[i] = ch]
  ELSE ch

Range(f) == {f[i] : i \in DOMAIN f}

\* .replace(/^icon[-_]/i, '')
StripIconPrefix(chars) ==
  IF Len(chars) >= 5
       /\ [i \in 1..4 |-> ToLowerCase(chars[i])] = <<"i", "c", "o", "n">>
       /\ chars[5] \in {"-", "_"}
  THEN SubSeq(chars, 6, Len(chars))
  ELSE chars

\* .replace(/\s+/g, '-'): every run of white space becomes one hyphen.
RECURSIVE CollapseWhiteSpace(_)
CollapseWhiteSpace(chars) ==
  IF chars = << >> THEN << >>
  ELSE IF Head(chars) \in WhiteSpace
  THEN IF Len(chars) > 1 /\ chars[2] \in WhiteSpace
       THEN CollapseWhiteSpace(Tail(chars))
       ELSE <<"-">> \o CollapseWhiteSpace(Tail(chars))
  ELSE <<Head(chars)>> \o CollapseWhiteSpace(Tail(chars))

\* .replace(/[^a-z0-9-_]/g, '')
KeepNameChars(chars) ==
  SelectSeq(chars,
            LAMBDA ch : ch \in Range(LowerCase)
                          \cup {"0", "1", "2", "3", "4", "5", "6", "7", "8", "9"}
                          \cup {"-", "_"})

RECURSIVE Join(_)
Join(chars) == IF chars = << >> THEN "" ELSE Head(chars) \o Join(Tail(chars))

\* The icon name syncIcon and syncAllIcons derive from a component: the
\* converted component name, or 'icon-' and the first 8 characters of the
\* component id when nothing is left of the name.
IconNameChars(component) ==
  LET converted ==
        KeepNameChars(CollapseWhiteSpace(
          [i \in DOMAIN StripIconPrefix(component.name) |->
             ToLowerCase(StripIconPrefix(component.name)[i])]))
  IN  IF converted # << >> THEN converted
      ELSE <<"i", "c", "o", "n", "-">>
             \o SubSeq(component.id, 1, Min(8, Len(component.id)))

\* The same name as the string the store is given.
IconNameOf(component) == Join(IconNameChars(component))

\* The components of the Figma file in the order of the document tree, each
\* with the SVG its export downloads.
Document ==
  <<[id |-> <<"1", ":", "1">>,
     name |-> <<"I", "c", "o", "n", "-", "H", "o", "m", "e">>, svg |-> Svg24],
    [id |-> <<"1", ":", "2">>, name |-> <<"M", "e", "n", "u">>, svg |-> Svg32],
    [id |-> <<"1", ":", "3">>, name |-> <<"h", "o", "m", "e", "!">>,
     svg |-> SvgNoShape]>>

Components == Range(Document)

\* The icon name of every component of the file.
IconNames == [c \in Components |-> IconNameOf(c)]

\* Bound on the number of components a discovery returns.
MaxComponents == 2

\* What fetchIconComponents can return: components of the file, in the
\* order of the document tree.
Discoveries ==
  {SelectSeq(Document, LAMBDA c : c \in cs) :
     cs \in {t \in SUBSET Components : Cardinality(t) <= MaxComponents}}


\* One executeWithRetry: the operation, the loop variable, the number of
\* times the request function was called, whether the loop is still running,
\* has returned or has thrown, lastError, the error thrown and the last wait.
NoRetry ==
  [op |-> "", attempt |-> 0, calls |-> 0, status |-> "idle",
   lastError |-> NoError, thrown |-> NoError, delayMs |-> 0]

StartRetry(op) == [NoRetry EXCEPT !.op = op, !.status = "running"]

NoResult == [success |-> 0, failed |-> 0, errors |-> << >>]

\* How the most recently completed call of the integrator ended.
NoReturn == [op |-> "", threw |-> FALSE, error |-> NoError, result |-> NoResult]

NotConnectedError == PlainError("Not connected to Figma API. Call connect() first.")

\* The integrator after construction: whether it has a token and a file id,
\* isConnected, how the most recent connect ended, the call in progress and
\* where it is, its executeWithRetry, the arguments and locals of the call
\* (namespace, incremental, iconComponents, the index of the component at
\* hand, the names of existingIcons, result), what was done with each
\* component so far, and the outcome of the last completed call.
NewIntegrator(apiToken, fileId) ==
  [apiToken |-> apiToken, fileId |-> fileId, isConnected |-> FALSE,
   lastConnect |-> "none", call |-> "none", pc |-> "idle", retry |-> NoRetry,
   ns |-> "", incremental |-> FALSE, components |-> << >>, i |-> 0,
   existing |-> {}, result |-> NoResult, log |-> << >>, ret |-> NoReturn]

\* ------------------------------------------------------- storage backends
\* JavaScript values as the two backends serialise them.
Num(text) == [type |-> "number", value |-> text]
Str(text) == [type |-> "string", value |-> text]
Null == [type |-> "null", value |-> "null"]

\* JSON.stringify(data, null, space): one member per own property; a number
\* that is not finite is written as null.
JSONStringify(data, space) ==
  [space |-> space,
   members |->
     {<<k, IF data[k].type = "number" /\ data[k].value \in {"Infinity", "-Infinity", "NaN"}
           THEN [token |-> "null", text |-> "null"]
           ELSE [token |-> data[k].type, text |-> data[k].value]>> :
        k \in DOMAIN data}]

\* JSON.parse(text): white space is not significant.
JSONParse(json) ==
  [k \in {m[1] : m \in json.members} |->
     LET t == (CHOOSE m \in json.members : m[1] = k)[2]
     IN  IF t.token = "null" THEN Null
         ELSE [type |-> t.token, value |-> t.text]]

\* IconData values parseSVG hands to saveIcon: width and height are
\* parseFloat of the viewBox numbers, guarded against 0 and NaN only.
Icon24 == [body |-> Str("<path/>"), width |-> Num("24"), height |-> Num("24")]
IconDatas ==
  {Icon24,
   [body |-> Str("<path/>"), width |-> Num("Infinity"),
    height |-> Num("Infinity")]}

VersionIds == {"v1"}

\* Namespaces as the routes pass them on (the upload route takes the
\* namespace from the request unvalidated), split at the path separator.
StoreNamespaces == {<<"gd">>, <<"gd", ".">>}

\* The namespace as the string the routes hand over.
RECURSIVE NamespaceString(_)
NamespaceString(ns) ==
  IF Len(ns) = 1 THEN ns[1] ELSE ns[1] \o "/" \o NamespaceString(Tail(ns))

\* path.join: joins the segments and normalises the result, dropping '.'
\* segments and resolving '..' against the segment before it.
RECURSIVE PathJoin(_)
PathJoin(segments) ==
  IF segments = << >> THEN << >>
  ELSE LET head == PathJoin(SubSeq(segments, 1, Len(segments) - 1))
           s == segments[Len(segments)]
       IN  IF s = "." THEN head
           ELSE IF s = ".." /\ head # << >> /\ head[Len(head)] # ".."
                THEN SubSeq(head, 1, Len(head) - 1)
                ELSE Append(head, s)

GetNamespaceDir(ns) == PathJoin(<<"icons">> \o ns)
GetIconsDir(ns) == PathJoin(GetNamespaceDir(ns) \o <<"icons">>)
GetIconPath(ns, name) == PathJoin(GetIconsDir(ns) \o <<name \o ".json">>)
GetMetadataPath(ns) == PathJoin(GetNamespaceDir(ns) \o <<"metadata.json">>)
GetVersionPath(ns, name, versionId) ==
  PathJoin(PathJoin(GetNamespaceDir(ns) \o <<"versions">>)
             \o <<name>> \o <<versionId \o ".json">>)

\* The file backend: path -> text of the file.
NoFiles == [p \in {} |-> ""]

WriteFile(files, path, text) == (path :> text) @@ files

FileSaveIcon(files, ns, name, data) ==
  WriteFile(files, GetIconPath(ns, name), JSONStringify(data, 2))

FileReadIcon(files, ns, name) ==
  IF GetIconPath(ns, name) \in DOMAIN files
  THEN JSONParse(files[GetIconPath(ns, name)]) ELSE NoIcon

FileDeleteIcon(files, ns, name) ==
  [p \in DOMAIN files \ {GetIconPath(ns, name)} |-> files[p]]

\* readdir of the icons directory, '.json' files with the suffix removed.
FileListIcons(files, ns) ==
  {n \in Names : PathJoin(GetIconsDir(ns) \o <<n \o ".json">>) \in DOMAIN files}

FileSaveIconSetMetadata(files, ns, metadata) ==
  WriteFile(files, GetMetadataPath(ns), JSONStringify(metadata, 2))

FileReadIconSetMetadata(files, ns) ==
  IF GetMetadataPath(ns) \in DOMAIN files
  THEN JSONParse(files[GetMetadataPath(ns)]) ELSE NoMeta

FileSaveIconVersion(files, ns, name, versionId, data) ==
  WriteFile(files, GetVersionPath(ns, name, versionId), JSONStringify(data, 2))

FileListIconVersions(files, ns, name) ==
  {v \in VersionIds : GetVersionPath(ns, name, v) \in DOMAIN files}

FileReadIconVersion(files, ns, name, versionId) ==
  IF GetVersionPath(ns, name, versionId) \in DOMAIN files
  THEN JSONParse(files[GetVersionPath(ns, name, versionId)]) ELSE NoIcon

\* The Redis backend: key -> hash, set or sorted set.
NoKeys == [k \in {} |-> ""]

GetIconKey(ns, name) == "icon:" \o NamespaceString(ns) \o ":" \o name
GetIconSetKey(ns) == "icons:" \o NamespaceString(ns)
GetMetadataKey(ns) == "metadata:" \o NamespaceString(ns)
GetVersionsKey(ns, name) == "versions:" \o NamespaceString(ns) \o ":" \o name
GetVersionKey(ns, name, versionId) ==
  "version:" \o NamespaceString(ns) \o ":" \o name \o ":" \o versionId

HSet(keys, key, value) == (key :> [data |-> value]) @@ keys

HGet(keys, key) == IF key \in DOMAIN keys THEN keys[key].data ELSE Null

Del(keys, key) == [k \in DOMAIN keys \ {key} |-> keys[k]]

SMembers(keys, key) == IF key \in DOMAIN keys THEN keys[key] ELSE {}

\* hset of the icon, sadd of its name.
RedisSaveIcon(keys, ns, name, data) ==
  LET saved == HSet(keys, GetIconKey(ns, name), JSONStringify(data, 0))
  IN  (GetIconSetKey(ns) :> (SMembers(saved, GetIconSetKey(ns)) \cup {name}))
        @@ saved

RedisReadIcon(keys, ns, name) ==
  IF HGet(keys, GetIconKey(ns, name)) = Null THEN NoIcon
  ELSE JSONParse(HGet(keys, GetIconKey(ns, name)))

\* del of the icon, srem of its name; a set that loses its last member is
\* removed.
RedisDeleteIcon(keys, ns, name) ==
  LET deleted == Del(keys, GetIconKey(ns, name))
      members == SMembers(deleted, GetIconSetKey(ns)) \ {name}
  IN  IF members = {} THEN Del(deleted, GetIconSetKey(ns))
      ELSE (GetIconSetKey(ns) :> members) @@ deleted

RedisListIcons(keys, ns) == SMembers(keys, GetIconSetKey(ns))

RedisSaveIconSetMetadata(keys, ns, metadata) ==
  HSet(keys, GetMetadataKey(ns), JSONStringify(metadata, 0))

RedisReadIconSetMetadata(keys, ns) ==
  IF HGet(keys, GetMetadataKey(ns)) = Null THEN NoMeta
  ELSE JSONParse(HGet(keys, GetMetadataKey(ns)))

\* hset of the version, zadd of its id with the time as score.
RedisSaveIconVersion(keys, ns, name, versionId, data, t) ==
  LET saved == HSet(keys, GetVersionKey(ns, name, versionId),
                    JSONStringify(data, 0))
      key == GetVersionsKey(ns, name)
  IN  (key :> ((versionId :> t) @@
                 (IF key \in DOMAIN saved THEN saved[key]
                  ELSE [m \in {} |-> 0])))
        @@ saved

\* zrange 0 -1, read as a set of members.
RedisListIconVersions(keys, ns, name) ==
  IF GetVersionsKey(ns, name) \in DOMAIN keys
  THEN DOMAIN keys[GetVersionsKey(ns, name)] ELSE {}

RedisReadIconVersion(keys, ns, name, versionId) ==
  IF HGet(keys, GetVersionKey(ns, name, versionId)) = Null THEN NoIcon
  ELSE JSONParse(HGet(keys, GetVersionKey(ns, name, versionId)))

\* The TTL of a CacheManager constructed without one, in seconds.
DefaultTTL == 86400

\* ---------------------------------------------------------------- state
\* icons, versions, meta: the files of the store; cache: the node-cache;
\* now: the millisecond clock; last: the most recently completed call;
\* req: the HTTP requests in flight, each at one of its I/O suspension points;
\* figma: the FigmaIntegrator and the call it is running.
\* fs: the files of the file backend; redis: the keys of the Redis backend.
\* ttl: the TTL the CacheManager was constructed with, in seconds.
\* seen: for each request, the icons of its namespace as they were at each
\* instant since its loadIconSet began (history, kept while it runs).
VARIABLES icons, versions, meta, cache, now, last, req, figma, fs, redis, ttl,
          seen

vars ==
  <<icons, versions, meta, cache, now, last, req, figma, fs, redis, ttl, seen>>
store == <<icons, versions, meta>>

\* The most recently completed call: what was called, for which icon, with
\* which conflict strategy option and ICON_CONFLICT_STRATEGY, how it ended,
\* the version id it was given and the id of the snapshot it took.
Idle ==
  [op |-> "none", ns |-> "", name |-> "", raw |-> NoRaw, opt |-> "",
   env |-> "", vid |-> 0, result |-> "", snap |-> 0]

Call(op, ns, name) == [Idle EXCEPT !.op = op, !.ns = ns, !.name = name]

Reqs == {"r1", "r2"}

NoneSeen == [r \in Reqs |-> {}]

\* A request: its route, where it is suspended, its arguments and the locals
\* its continuation holds.
NoRequest ==
  [kind |-> "none", pc |-> "idle", ns |-> "", name |-> "", raw |-> NoRaw,
   strategy |-> "", existing |-> NoIcon, vid |-> 0, todo |-> {},
   acc |-> NoVersions, total |-> 0, m |-> NoMeta, lm |-> 0, result |-> ""]

Init ==
  /\ icons = [ns \in Namespaces |-> [n \in Names |-> NoIcon]]
  /\ versions = [ns \in Namespaces |-> [n \in Names |-> NoVersions]]
  /\ meta = [ns \in Namespaces |-> NoMeta]
  /\ cache = [ns \in Namespaces |-> NoCache]
  /\ now = 1
  /\ last = Idle
  /\ req = [r \in Reqs |-> NoRequest]
  /\ fs = NoFiles
  /\ redis = NoKeys
  /\ ttl = DefaultTTL
  /\ seen = NoneSeen
  /\ figma = NewIntegrator(TRUE, TRUE)

\* Bound on the number of metadata bumps of a namespace.
CanMutate(ns) ==
  IF meta[ns] = NoMeta THEN TRUE ELSE meta[ns].version[3] < MaxPatch

\* The millisecond clock advances between calls.
Tick ==
  /\ now < MaxClock
  /\ now' = now + 1
  /\ last' = Idle
  /\ UNCHANGED <<icons, versions, meta, cache, req, figma, fs, redis, ttl, seen>>

\* ------------------------------------------- IconSetManager operations
\* Each call runs to completion within one reading of the millisecond clock;
\* time passes between calls (Tick).

\* addIcon rejects, or snapshots the existing icon, or does neither.
Rejects(existingIcon, strategy) ==
  existingIcon # NoIcon /\ strategy = "reject"

SnapshotsOnAdd(existingIcon, strategy) ==
  existingIcon # NoIcon /\ strategy = "overwrite"

AddIconCall(op, ns, name, raw, opt, env) ==
  LET existingIcon == ReadIcon(icons[ns], name)
      strategy == ConflictStrategy(opt, env)
      snapshot == SnapshotsOnAdd(existingIcon, strategy)
      call == [Call(op, ns, name) EXCEPT
                 !.raw = raw, !.opt = opt, !.env = env,
                 !.snap = IF snapshot THEN VersionId(now) ELSE 0]
      vs1 == IF snapshot
             THEN SaveIconVersion(versions[ns], name, VersionId(now), existingIcon)
             ELSE versions[ns]
      iconData == ParseSVG(raw)
      ic1 == SaveIcon(icons[ns], name, iconData)
  IN  IF Rejects(existingIcon, strategy)
      THEN /\ last' = [call EXCEPT !.result = "ConflictError"]
           /\ UNCHANGED <<icons, versions, meta, now>>
      ELSE IF iconData = ParseError
      THEN /\ versions' = [versions EXCEPT ![ns] = vs1]
           /\ last' = [call EXCEPT !.result = "SVGParseError"]
           /\ UNCHANGED <<icons, meta, now>>
      ELSE /\ versions' = [versions EXCEPT ![ns] = vs1]
           /\ icons' = [icons EXCEPT ![ns] = ic1]
           /\ meta' = [meta EXCEPT ![ns] = UpdateMetadata(ic1, meta[ns], now)]
           /\ UNCHANGED now
           /\ last' = [call EXCEPT !.result = "ok"]

UpdateIconCall(ns, name, raw) ==
  LET existingIcon == ReadIcon(icons[ns], name)
      snapshot == existingIcon # NoIcon
      call == [Call("updateIcon", ns, name) EXCEPT
                 !.raw = raw,
                 !.snap = IF snapshot THEN VersionId(now) ELSE 0]
      vs1 == IF snapshot
             THEN SaveIconVersion(versions[ns], name, VersionId(now), existingIcon)
             ELSE versions[ns]
      iconData == ParseSVG(raw)
      ic1 == SaveIcon(icons[ns], name, iconData)
  IN  IF iconData = ParseError
      THEN /\ versions' = [versions EXCEPT ![ns] = vs1]
           /\ last' = [call EXCEPT !.result = "SVGParseError"]
           /\ UNCHANGED <<icons, meta, now>>
      ELSE /\ versions' = [versions EXCEPT ![ns] = vs1]
           /\ icons' = [icons EXCEPT ![ns] = ic1]
           /\ meta' = [meta EXCEPT ![ns] = UpdateMetadata(ic1, meta[ns], now)]
           /\ UNCHANGED now
           /\ last' = [call EXCEPT !.result = "ok"]

RemoveIconCall(op, ns, name) ==
  LET ic1 == DeleteIcon(icons[ns], name)
  IN  /\ icons' = [icons EXCEPT ![ns] = ic1]
      /\ meta' = [meta EXCEPT ![ns] = UpdateMetadata(ic1, meta[ns], now)]
      /\ UNCHANGED now
      /\ last' = [Call(op, ns, name) EXCEPT !.result = "ok"]
      /\ UNCHANGED versions

SaveVersionCall(ns, name, iconData) ==
  /\ versions' = [versions EXCEPT ![ns] =
                    SaveIconVersion(@, name, VersionId(now), iconData)]
  /\ last' = [Call("saveVersion", ns, name) EXCEPT
                !.snap = VersionId(now), !.result = "ok"]
  /\ UNCHANGED <<icons, meta, now>>

RollbackToVersionCall(ns, name, versionId) ==
  LET versionData == ReadIconVersion(versions[ns], name, versionId)
      currentIcon == ReadIcon(icons[ns], name)
      snapshot == currentIcon # NoIcon
      call == [Call("rollbackToVersion", ns, name) EXCEPT !.vid = versionId]
      vs1 == IF snapshot
             THEN SaveIconVersion(versions[ns], name, VersionId(now), currentIcon)
             ELSE versions[ns]
      ic1 == SaveIcon(icons[ns], name, versionData)
  IN  IF versionData = NoIcon
      THEN /\ last' = [call EXCEPT !.result = "VersionNotFound"]
           /\ UNCHANGED <<icons, versions, meta, now>>
      ELSE /\ versions' = [versions EXCEPT ![ns] = vs1]
           /\ icons' = [icons EXCEPT ![ns] = ic1]
           /\ meta' = [meta EXCEPT ![ns] = UpdateMetadata(ic1, meta[ns], now)]
           /\ UNCHANGED now
           /\ last' = [call EXCEPT !.result = "ok",
                         !.snap = IF snapshot THEN VersionId(now) ELSE 0]

\* ---------------------------------------------------------- CacheManager
GetCachedIconSet(c, ns) == c[ns]

CacheIconSet(c, ns, iconSet) == [c EXCEPT ![ns] = iconSet]

\* Variant: with an icon name, only that icon leaves the cached icon set.
InvalidateCacheDropsIcon(c, ns, iconName) ==
  IF iconName \notin {"undefined", ""}
  THEN IF c[ns] = NoCache THEN c
       ELSE [c EXCEPT ![ns].icons =
               [n \in DOMAIN c[ns].icons \ {iconName} |-> c[ns].icons[n]]]
  ELSE [c EXCEPT ![ns] = NoCache]

\* invalidateCache(namespace, iconName?): an absent or empty icon name takes
\* the second branch.
InvalidateCacheIcon(c, ns, iconName) ==
  IF iconName \notin {"undefined", ""}
  THEN [c EXCEPT ![ns] = NoCache]
  ELSE [c EXCEPT ![ns] = NoCache]

InvalidateCache(c, ns) == InvalidateCacheIcon(c, ns, "undefined")

\* The md5 digest of the JSON text of the data: equal data, equal tag.
GenerateETag(data) == [md5 |-> data]

\* The ETag of getCacheHeaders: of the cached icon set, or of the namespace
\* and the clock when nothing is cached.
GetCacheHeadersETag(c, ns, t) ==
  IF GetCachedIconSet(c, ns) # NoCache
  THEN GenerateETag(GetCachedIconSet(c, ns))
  ELSE GenerateETag([namespace |-> ns, timestamp |-> t])

\* --------------------------------------------- actions: direct manager calls
AddIcon(ns, name, raw, opt, env) ==
  /\ CanMutate(ns)
  /\ AddIconCall("addIcon", ns, name, raw, opt, env)
  /\ UNCHANGED <<cache, req, figma, fs, redis, ttl, seen>>

UpdateIcon(ns, name, raw) ==
  /\ CanMutate(ns)
  /\ UpdateIconCall(ns, name, raw)
  /\ UNCHANGED <<cache, req, figma, fs, redis, ttl, seen>>

RemoveIcon(ns, name) ==
  /\ CanMutate(ns)
  /\ RemoveIconCall("removeIcon", ns, name)
  /\ UNCHANGED <<cache, req, figma, fs, redis, ttl, seen>>

\* saveVersion is called with the icon a getIcon just returned.
SaveVersion(ns, name) ==
  /\ ReadIcon(icons[ns], name) # NoIcon
  /\ SaveVersionCall(ns, name, ReadIcon(icons[ns], name))
  /\ UNCHANGED <<cache, req, figma, fs, redis, ttl, seen>>

RollbackToVersion(ns, name, versionId) ==
  /\ CanMutate(ns)
  /\ RollbackToVersionCall(ns, name, versionId)
  /\ UNCHANGED <<cache, req, figma, fs, redis, ttl, seen>>

\* ------------------------------------------------------ actions: routes
\* GET /collection: read through the cache.
GetCollection(ns) ==
  LET cached == GetCachedIconSet(cache, ns)
      iconSet == IF cached # NoCache THEN cached
                 ELSE LoadIconSet(ns, icons[ns], meta[ns], now)
  IN  /\ cache' = IF cached # NoCache THEN cache
                  ELSE CacheIconSet(cache, ns, iconSet)
      /\ last' = [Call("getCollection", ns, "") EXCEPT
                    !.result = IF DOMAIN iconSet.icons = {} THEN "NotFoundError"
                               ELSE "ok"]
      /\ UNCHANGED <<icons, versions, meta, now, req, figma, fs, redis, ttl, seen>>

\* POST /api/upload: content check, addIcon, then invalidate.
PostUpload(ns, name, raw, opt, env) ==
  /\ CanMutate(ns)
  /\ UNCHANGED <<req, figma, fs, redis, ttl, seen>>
  /\ IF raw.root # "svg"
     THEN /\ last' = [Call("upload", ns, name) EXCEPT
                        !.raw = raw, !.opt = opt, !.env = env,
                        !.result = "ValidationError"]
          /\ UNCHANGED <<icons, versions, meta, now, cache>>
     ELSE /\ AddIconCall("upload", ns, name, raw, opt, env)
          /\ cache' = IF last'.result = "ok" THEN InvalidateCache(cache, ns)
                      ELSE cache

\* DELETE /api/icons/:namespace/:name: existence check, removeIcon, invalidate.
DeleteRoute(ns, name) ==
  /\ CanMutate(ns)
  /\ UNCHANGED <<req, figma, fs, redis, ttl, seen>>
  /\ IF ReadIcon(icons[ns], name) = NoIcon
     THEN /\ last' = [Call("delete", ns, name) EXCEPT
                        !.result = "NotFoundError"]
          /\ UNCHANGED <<icons, versions, meta, now, cache>>
     ELSE /\ RemoveIconCall("delete", ns, name)
          /\ cache' = InvalidateCache(cache, ns)

\* The cached entry reaches its TTL.
CacheExpire(ns) ==
  /\ cache[ns] # NoCache
  /\ cache' = InvalidateCache(cache, ns)
  /\ last' = Idle
  /\ UNCHANGED <<icons, versions, meta, now, req, figma, fs, redis, ttl, seen>>

Next ==
  \/ Tick
  \/ \E ns \in Namespaces, name \in Names, raw \in RawSVGs,
        si \in StrategyInputs :
       AddIcon(ns, name, raw, si[1], si[2])
  \/ \E ns \in Namespaces, name \in Names, raw \in RawSVGs :
       UpdateIcon(ns, name, raw)
  \/ \E ns \in Namespaces, name \in Names :
       RemoveIcon(ns, name)
  \/ \E ns \in Namespaces, name \in Names : SaveVersion(ns, name)
  \/ \E ns \in Namespaces, name \in Names, versionId \in 1..(MaxClock + 1) :
       RollbackToVersion(ns, name, versionId)

Spec == Init /\ [][Next]_vars

\* The server: the routes over the cache, next to the manager calls that
\* no route wraps.
NextRoutes ==
  \/ Tick
  \/ \E ns \in Namespaces : GetCollection(ns)
  \/ \E ns \in Namespaces, name \in Names, raw \in RawSVGs,
        si \in StrategyInputs :
       PostUpload(ns, name, raw, si[1], si[2])
  \/ \E ns \in Namespaces, name \in Names : DeleteRoute(ns, name)
  \/ \E ns \in Namespaces, name \in Names, raw \in RawSVGs :
       UpdateIcon(ns, name, raw)
  \/ \E ns \in Namespaces, name \in Names, versionId \in 1..(MaxClock + 1) :
       RollbackToVersion(ns, name, versionId)
  \/ \E ns \in Namespaces : CacheExpire(ns)

SpecRoutes == Init /\ [][NextRoutes]_vars

\* ---------------------------------------- requests interleaved at their I/O
\* The server handles requests concurrently on one event loop: a handler runs
\* until it awaits a store operation, and other handlers run meanwhile. Each
\* action below is one store operation of a request together with the
\* synchronous code that follows it up to the next await.

\* The store after addIcon("gd", "home", Svg24) at clock 1 on an empty store.
Preloaded ==
  LET ic == SaveIcon([n \in Names |-> NoIcon], "home", ParseSVG(Svg24))
  IN  [icons |-> ic, meta |-> UpdateMetadata(ic, NoMeta, 1)]

InitRace ==
  /\ \/ /\ icons = [ns \in Namespaces |-> [n \in Names |-> NoIcon]]
        /\ meta = [ns \in Namespaces |-> NoMeta]
     \/ /\ icons = [ns \in Namespaces |-> Preloaded.icons]
        /\ meta = [ns \in Namespaces |-> Preloaded.meta]
  /\ versions = [ns \in Namespaces |-> [n \in Names |-> NoVersions]]
  /\ cache = [ns \in Namespaces |-> NoCache]
  /\ now = 1
  /\ last = Idle
  /\ req = [r \in Reqs |-> NoRequest]
  /\ fs = NoFiles
  /\ redis = NoKeys
  /\ ttl = DefaultTTL
  /\ seen = NoneSeen
  /\ figma = NewIntegrator(TRUE, TRUE)

\* The icons of a namespace have changed: every loadIconSet of the namespace
\* that is running has one more instant to its history.
SeenBy(s, ns, directory) ==
  [r \in Reqs |->
     IF req[r].kind = "read" /\ req[r].pc # "done" /\ req[r].ns = ns
     THEN s[r] \cup {directory} ELSE s[r]]

\* The response is sent: the request keeps its route, its arguments and how
\* it ended.
Finished(q, result) ==
  [NoRequest EXCEPT !.kind = q.kind, !.pc = "done", !.ns = q.ns,
                    !.name = q.name, !.strategy = q.strategy,
                    !.result = result]

\* GET /collection, up to the await of loadIconSet.
GetCollectionBegin(r, ns) ==
  /\ req[r].pc = "idle"
  /\ LET q == [NoRequest EXCEPT !.kind = "read", !.ns = ns]
     IN  req' = [req EXCEPT ![r] =
                   IF GetCachedIconSet(cache, ns) # NoCache
                   THEN Finished(q, "cached")
                   ELSE [q EXCEPT !.pc = "listIcons"]]
  /\ seen' = [seen EXCEPT ![r] = IF GetCachedIconSet(cache, ns) # NoCache
                                 THEN {} ELSE {icons[ns]}]
  /\ UNCHANGED <<icons, versions, meta, cache, now, last, figma, fs, redis, ttl>>

\* loadIconSet: storage.listIcons.
LoadIconSetListIcons(r) ==
  /\ req[r].kind = "read"
  /\ req[r].pc = "listIcons"
  /\ req' = [req EXCEPT ![r].todo = ListIcons(icons[req[r].ns]),
                        ![r].pc = "readIcon"]
  /\ UNCHANGED <<icons, versions, meta, cache, now, last, figma, fs, redis, ttl, seen>>

\* loadIconSet: storage.readIcon of the next listed name; a name whose file
\* is gone by now is skipped.
LoadIconSetReadIcon(r) ==
  /\ req[r].kind = "read"
  /\ req[r].pc = "readIcon"
  /\ \E n \in req[r].todo :
       LET iconData == ReadIcon(icons[req[r].ns], n)
       IN  req' = [req EXCEPT
                     ![r].todo = @ \ {n},
                     ![r].acc = IF iconData # NoIcon
                                THEN (n :> iconData) @@ @ ELSE @]
  /\ UNCHANGED <<icons, versions, meta, cache, now, last, figma, fs, redis, ttl, seen>>

\* loadIconSet: storage.readIconSetMetadata, the icon set is built and
\* returned, and the route caches it.
LoadIconSetReadMetadata(r) ==
  /\ req[r].kind = "read"
  /\ req[r].pc = "readIcon"
  /\ req[r].todo = {}
  /\ LET ns == req[r].ns
         m == meta[ns]
         iconSet == [prefix |-> ns, icons |-> req[r].acc,
                     lastModified |-> IF m # NoMeta THEN m.lastModified
                                      ELSE now]
     IN  /\ cache' = CacheIconSet(cache, ns, iconSet)
         /\ req' = [req EXCEPT ![r] =
                      Finished(req[r], IF DOMAIN iconSet.icons = {}
                                       THEN "NotFoundError" ELSE "ok")]
  /\ seen' = [seen EXCEPT ![r] = {}]
  /\ UNCHANGED <<icons, versions, meta, now, last, figma, fs, redis, ttl>>

\* POST /api/upload, up to the await of addIcon's storage.readIcon.
PostUploadBegin(r, ns, name, raw, opt, env) ==
  /\ req[r].pc = "idle"
  /\ LET q == [NoRequest EXCEPT !.kind = "upload", !.ns = ns, !.name = name]
     IN  req' = [req EXCEPT ![r] =
                   IF raw.root # "svg" THEN Finished(q, "ValidationError")
                   ELSE [q EXCEPT !.pc = "readExisting", !.raw = raw,
                                  !.strategy = ConflictStrategy(opt, env)]]
  /\ UNCHANGED <<icons, versions, meta, cache, now, last, figma, fs, redis, ttl, seen>>

\* addIcon: storage.readIcon of the existing icon, then the conflict
\* strategy; with nothing to snapshot, parseSVG follows.
AddIconReadExisting(r) ==
  /\ req[r].kind = "upload"
  /\ req[r].pc = "readExisting"
  /\ LET q == req[r]
         existingIcon == ReadIcon(icons[q.ns], q.name)
     IN  req' = [req EXCEPT ![r] =
                   IF Rejects(existingIcon, q.strategy)
                   THEN Finished(q, "ConflictError")
                   ELSE IF SnapshotsOnAdd(existingIcon, q.strategy)
                   THEN [q EXCEPT !.pc = "saveVersion",
                                  !.existing = existingIcon,
                                  !.vid = VersionId(now)]
                   ELSE IF ParseSVG(q.raw) = ParseError
                   THEN Finished(q, "SVGParseError")
                   ELSE [q EXCEPT !.pc = "saveIcon"]]
  /\ UNCHANGED <<icons, versions, meta, cache, now, last, figma, fs, redis, ttl, seen>>

\* addIcon: saveVersion writes the snapshot, then parseSVG.
AddIconSaveVersion(r) ==
  /\ req[r].kind = "upload"
  /\ req[r].pc = "saveVersion"
  /\ LET q == req[r]
     IN  /\ versions' = [versions EXCEPT ![q.ns] =
                           SaveIconVersion(@, q.name, q.vid, q.existing)]
         /\ req' = [req EXCEPT ![r] =
                      IF ParseSVG(q.raw) = ParseError
                      THEN Finished(q, "SVGParseError")
                      ELSE [q EXCEPT !.pc = "saveIcon", !.existing = NoIcon,
                                     !.vid = 0]]
  /\ UNCHANGED <<icons, meta, cache, now, last, figma, fs, redis, ttl, seen>>

\* addIcon: storage.saveIcon.
AddIconSaveIcon(r) ==
  /\ req[r].kind = "upload"
  /\ req[r].pc = "saveIcon"
  /\ LET q == req[r]
     IN  /\ icons' = [icons EXCEPT ![q.ns] =
                        SaveIcon(@, q.name, ParseSVG(q.raw))]
         /\ req' = [req EXCEPT ![r].pc = "metaList", ![r].raw = NoRaw]
         /\ seen' = SeenBy(seen, q.ns, SaveIcon(icons[q.ns], q.name,
                                                ParseSVG(q.raw)))
  /\ UNCHANGED <<versions, meta, cache, now, last, figma, fs, redis, ttl>>

\* DELETE /api/icons/:namespace/:name, up to the await of getIcon.
DeleteRouteBegin(r, ns, name) ==
  /\ req[r].pc = "idle"
  /\ req' = [req EXCEPT ![r] =
               [NoRequest EXCEPT !.kind = "delete", !.pc = "getIcon",
                                 !.ns = ns, !.name = name]]
  /\ UNCHANGED <<icons, versions, meta, cache, now, last, figma, fs, redis, ttl, seen>>

\* The route's existence check: getIcon.
DeleteRouteGetIcon(r) ==
  /\ req[r].kind = "delete"
  /\ req[r].pc = "getIcon"
  /\ LET q == req[r]
     IN  req' = [req EXCEPT ![r] =
                   IF ReadIcon(icons[q.ns], q.name) = NoIcon
                   THEN Finished(q, "NotFoundError")
                   ELSE [q EXCEPT !.pc = "deleteIcon"]]
  /\ UNCHANGED <<icons, versions, meta, cache, now, last, figma, fs, redis, ttl, seen>>

\* removeIcon: storage.deleteIcon.
RemoveIconDeleteIcon(r) ==
  /\ req[r].kind = "delete"
  /\ req[r].pc = "deleteIcon"
  /\ icons' = [icons EXCEPT ![req[r].ns] = DeleteIcon(@, req[r].name)]
  /\ req' = [req EXCEPT ![r].pc = "metaList"]
  /\ seen' = SeenBy(seen, req[r].ns, DeleteIcon(icons[req[r].ns], req[r].name))
  /\ UNCHANGED <<versions, meta, cache, now, last, figma, fs, redis, ttl>>

\* updateMetadata: storage.listIcons, the count is taken.
UpdateMetadataListIcons(r) ==
  /\ req[r].pc = "metaList"
  /\ req' = [req EXCEPT ![r].total = Cardinality(ListIcons(icons[req[r].ns])),
                        ![r].pc = "metaRead"]
  /\ UNCHANGED <<icons, versions, meta, cache, now, last, figma, fs, redis, ttl, seen>>

\* updateMetadata: storage.readIconSetMetadata, the new metadata is built.
UpdateMetadataRead(r) ==
  /\ req[r].pc = "metaRead"
  /\ req' = [req EXCEPT ![r].m = meta[req[r].ns], ![r].lm = now,
                        ![r].pc = "metaSave"]
  /\ UNCHANGED <<icons, versions, meta, cache, now, last, figma, fs, redis, ttl, seen>>

\* updateMetadata: storage.saveIconSetMetadata; addIcon or removeIcon
\* returns and the route invalidates the namespace.
UpdateMetadataSave(r) ==
  /\ req[r].pc = "metaSave"
  /\ LET q == req[r]
     IN  /\ meta' = [meta EXCEPT ![q.ns] =
                       [total |-> q.total,
                        version |-> IF q.m # NoMeta
                                    THEN IncrementVersion(q.m.version, q.lm)
                                    ELSE <<1, 0, 0>>,
                        lastModified |-> q.lm]]
         /\ cache' = InvalidateCache(cache, q.ns)
         /\ req' = [req EXCEPT ![r] = Finished(q, "ok")]
  /\ UNCHANGED <<icons, versions, now, last, figma, fs, redis, ttl, seen>>

NextRace ==
  \/ Tick
  \/ \E r \in Reqs, ns \in Namespaces : GetCollectionBegin(r, ns)
  \/ \E r \in Reqs : LoadIconSetListIcons(r)
  \/ \E r \in Reqs : LoadIconSetReadIcon(r)
  \/ \E r \in Reqs : LoadIconSetReadMetadata(r)
  \/ \E r \in Reqs, ns \in Namespaces, name \in Names, raw \in RawSVGs,
        si \in StrategyInputs :
       PostUploadBegin(r, ns, name, raw, si[1], si[2])
  \/ \E r \in Reqs : AddIconReadExisting(r)
  \/ \E r \in Reqs : AddIconSaveVersion(r)
  \/ \E r \in Reqs : AddIconSaveIcon(r)
  \/ \E r \in Reqs, ns \in Namespaces, name \in Names :
       DeleteRouteBegin(r, ns, name)
  \/ \E r \in Reqs : DeleteRouteGetIcon(r)
  \/ \E r \in Reqs : RemoveIconDeleteIcon(r)
  \/ \E r \in Reqs : UpdateMetadataListIcons(r)
  \/ \E r \in Reqs : UpdateMetadataRead(r)
  \/ \E r \in Reqs : UpdateMetadataSave(r)
  \/ \E ns \in Namespaces : CacheExpire(ns)

SpecRace == InitRace /\ [][NextRace]_vars

\* The server takes the next request once a response has been sent.
NextRequest(r) ==
  /\ req[r].pc = "done"
  /\ req' = [req EXCEPT ![r] = NoRequest]
  /\ UNCHANGED <<icons, versions, meta, cache, now, last, figma, fs, redis, ttl, seen>>

\* One GET /collection, suspended at its awaits while uploads and deletes
\* follow one another, as long as the metadata version has room.
NextLoad ==
  \/ \E ns \in Namespaces : GetCollectionBegin("r1", ns)
  \/ LoadIconSetListIcons("r1")
  \/ LoadIconSetReadIcon("r1")
  \/ LoadIconSetReadMetadata("r1")
  \/ \E ns \in {n \in Namespaces : CanMutate(n)}, name \in Names,
        raw \in {Svg24, Svg32} :
       PostUploadBegin("r2", ns, name, raw, "overwrite", "")
  \/ AddIconReadExisting("r2")
  \/ AddIconSaveVersion("r2")
  \/ AddIconSaveIcon("r2")
  \/ \E ns \in {n \in Namespaces : CanMutate(n)}, name \in Names :
       DeleteRouteBegin("r2", ns, name)
  \/ DeleteRouteGetIcon("r2")
  \/ RemoveIconDeleteIcon("r2")
  \/ UpdateMetadataListIcons("r2")
  \/ UpdateMetadataRead("r2")
  \/ UpdateMetadataSave("r2")
  \/ NextRequest("r2")

SpecLoad == InitRace /\ [][NextLoad]_vars

\* ------------------------------------------------ actions: FigmaIntegrator
\* The integrator runs one call at a time. A call is a sequence of steps:
\* each remote request of an executeWithRetry is one step, and so is the
\* code that runs when an executeWithRetry has returned or thrown.

InitSync ==
  /\ \/ /\ icons = [ns \in Namespaces |-> [n \in Names |-> NoIcon]]
        /\ meta = [ns \in Namespaces |-> NoMeta]
     \/ /\ icons = [ns \in Namespaces |-> Preloaded.icons]
        /\ meta = [ns \in Namespaces |-> Preloaded.meta]
  /\ versions = [ns \in Namespaces |-> [n \in Names |-> NoVersions]]
  /\ cache = [ns \in Namespaces |-> NoCache]
  /\ now = 1
  /\ last = Idle
  /\ req = [r \in Reqs |-> NoRequest]
  /\ fs = NoFiles
  /\ redis = NoKeys
  /\ ttl = DefaultTTL
  /\ seen = NoneSeen
  /\ \E apiToken \in BOOLEAN, fileId \in BOOLEAN :
       figma = NewIntegrator(apiToken, fileId)

\* A call begins: its locals are fresh.
Begin(f, op) ==
  [f EXCEPT !.call = op, !.ns = "", !.incremental = FALSE,
            !.components = << >>, !.i = 0, !.existing = {},
            !.result = NoResult, !.log = << >>, !.ret = NoReturn]

\* A call ends, returning (a SyncResult, for syncAllIcons) or throwing.
Return(f, threw, error) ==
  [f EXCEPT !.call = "none", !.pc = "idle", !.retry = NoRetry,
            !.ret = [op |-> f.call, threw |-> threw, error |-> error,
                     result |-> IF f.call = "syncAllIcons" /\ ~threw
                                THEN f.result ELSE NoResult]]

Done(r) == r.status \in {"returned", "threw"}

ConnectWithoutCredentialCheck(apiToken, fileId) ==
  /\ figma.call = "none"
  /\ figma' = [Begin(figma, "connect") EXCEPT
                 !.apiToken = @ \/ apiToken, !.fileId = @ \/ fileId,
                 !.pc = "connect", !.retry = StartRetry("connect")]
  /\ UNCHANGED <<icons, versions, meta, cache, now, last, req, fs, redis, ttl, seen>>

\* connect(apiToken?, fileId?), up to its executeWithRetry: the arguments
\* say whether a token and a file id are given.
Connect(apiToken, fileId) ==
  /\ figma.call = "none"
  /\ LET f == [Begin(figma, "connect") EXCEPT
                 !.apiToken = @ \/ apiToken, !.fileId = @ \/ fileId]
     IN  figma' =
           IF ~f.apiToken \/ ~f.fileId
           THEN Return([f EXCEPT !.lastConnect = "failed"], TRUE,
                       PlainError("Figma API token and file ID are required"))
           ELSE [f EXCEPT !.pc = "connect", !.retry = StartRetry("connect")]
  /\ UNCHANGED <<icons, versions, meta, cache, now, last, req, fs, redis, ttl, seen>>

\* One pass of executeWithRetry's loop: the request function is called and
\* succeeds (error = NoError) or fails; a failure either ends the loop or is
\* followed by the backoff wait and the next pass. connect's request
\* function sets isConnected when it succeeds.
RemoteRequest(error) ==
  /\ figma.retry.status = "running"
  /\ LET r == [figma.retry EXCEPT !.calls = @ + 1]
     IN  figma' =
           IF error = NoError
           THEN [figma EXCEPT
                   !.retry = [r EXCEPT !.status = "returned"],
                   !.isConnected = IF r.op = "connect" THEN TRUE ELSE @]
           ELSE IF ShouldRetry(error, r.attempt)
           THEN [figma EXCEPT
                   !.retry = [r EXCEPT !.lastError = error,
                                       !.delayMs = CalculateBackoffDelay(r.attempt),
                                       !.attempt = @ + 1]]
           ELSE [figma EXCEPT
                   !.retry = [r EXCEPT !.lastError = error, !.thrown = error,
                                       !.status = "threw"]]
  /\ UNCHANGED <<icons, versions, meta, cache, now, last, req, fs, redis, ttl, seen>>

ConnectFailedStaysConnected(f, error) ==
  Return([f EXCEPT !.lastConnect = "failed"], TRUE, error)

\* connect's catch block: isConnected is cleared and the error thrown.
ConnectFailed(f, error) ==
  Return([f EXCEPT !.isConnected = FALSE, !.lastConnect = "failed"], TRUE, error)

\* connect after its executeWithRetry: it returns, or its catch block runs.
ConnectReturn ==
  /\ figma.call = "connect"
  /\ Done(figma.retry)
  /\ LET errorType == CategorizeError(figma.retry.thrown)
     IN  figma' =
           IF figma.retry.status = "returned"
           THEN Return([figma EXCEPT !.lastConnect = "ok"], FALSE, NoError)
           ELSE ConnectFailed(figma,
                  IF errorType = "AUTHENTICATION_ERROR"
                  THEN PlainError("Invalid Figma API token")
                  ELSE IF errorType = "NOT_FOUND_ERROR"
                  THEN PlainError("Figma file not found")
                  ELSE figma.retry.thrown)
  /\ UNCHANGED <<icons, versions, meta, cache, now, last, req, fs, redis, ttl, seen>>

\* fetchIconComponents, up to its executeWithRetry.
FetchIconComponents ==
  /\ figma.call = "none"
  /\ LET f == Begin(figma, "fetchIconComponents")
     IN  figma' = IF ~f.isConnected THEN Return(f, TRUE, NotConnectedError)
                  ELSE [f EXCEPT !.pc = "fetch", !.retry = StartRetry("fetch")]
  /\ UNCHANGED <<icons, versions, meta, cache, now, last, req, fs, redis, ttl, seen>>

\* fetchIconComponents after its executeWithRetry: the components of the
\* response, or the error.
FetchReturn ==
  /\ figma.call = "fetchIconComponents"
  /\ Done(figma.retry)
  /\ IF figma.retry.status = "threw"
     THEN figma' = Return(figma, TRUE, figma.retry.thrown)
     ELSE \E cs \in Discoveries :
            figma' = Return([figma EXCEPT !.components = cs], FALSE, NoError)
  /\ UNCHANGED <<icons, versions, meta, cache, now, last, req, fs, redis, ttl, seen>>

\* exportComponentAsSVG(component.id), up to its first executeWithRetry.
ExportComponentAsSVG(component) ==
  /\ figma.call = "none"
  /\ LET f == [Begin(figma, "exportComponentAsSVG") EXCEPT
                 !.components = <<component>>, !.i = 1]
     IN  figma' = IF ~f.isConnected THEN Return(f, TRUE, NotConnectedError)
                  ELSE [f EXCEPT !.pc = "exportUrl",
                                 !.retry = StartRetry("exportUrl")]
  /\ UNCHANGED <<icons, versions, meta, cache, now, last, req, fs, redis, ttl, seen>>

\* syncIcon(component.id, component.name, iconSetManager, ns), up to the
\* first executeWithRetry of its export.
SyncIcon(component, ns) ==
  /\ figma.call = "none"
  /\ LET f == [Begin(figma, "syncIcon") EXCEPT
                 !.components = <<component>>, !.i = 1, !.ns = ns]
     IN  figma' = IF ~f.isConnected THEN Return(f, TRUE, NotConnectedError)
                  ELSE [f EXCEPT !.pc = "exportUrl",
                                 !.retry = StartRetry("exportUrl")]
  /\ UNCHANGED <<icons, versions, meta, cache, now, last, req, fs, redis, ttl, seen>>

\* syncAllIcons(iconSetManager, ns, incremental), up to the executeWithRetry
\* of its discovery.
SyncAllIcons(ns, incremental) ==
  /\ figma.call = "none"
  /\ LET f == [Begin(figma, "syncAllIcons") EXCEPT
                 !.ns = ns, !.incremental = incremental]
     IN  figma' = IF ~f.isConnected THEN Return(f, TRUE, NotConnectedError)
                  ELSE [f EXCEPT !.pc = "fetch", !.retry = StartRetry("fetch")]
  /\ UNCHANGED <<icons, versions, meta, cache, now, last, req, fs, redis, ttl, seen>>

DiscoveryFailedThrows(f) == Return(f, TRUE, f.retry.thrown)

\* The catch block around syncAllIcons' discovery: the failure is recorded
\* and the result returned.
DiscoveryFailed(f) ==
  Return([f EXCEPT !.result.errors =
            Append(@, [componentId |-> "N/A",
                       error |-> "Failed to fetch components"])],
         FALSE, NoError)

\* syncAllIcons after its discovery: a failure is recorded and the result
\* returned; no component, the result is returned; otherwise, in
\* incremental mode, the existing icons are loaded, and the loop starts.
SyncAllFetched ==
  /\ figma.call = "syncAllIcons"
  /\ figma.pc = "fetch"
  /\ Done(figma.retry)
  /\ IF figma.retry.status = "threw"
     THEN figma' = DiscoveryFailed(figma)
     ELSE \E cs \in Discoveries :
            figma' =
              IF cs = << >> THEN Return(figma, FALSE, NoError)
              ELSE [figma EXCEPT
                      !.components = cs, !.i = 1, !.pc = "loop",
                      !.retry = NoRetry,
                      !.existing = IF figma.incremental
                                   THEN DOMAIN LoadIconSet(figma.ns, icons[figma.ns],
                                                           meta[figma.ns], now).icons
                                   ELSE {}]
  /\ UNCHANGED <<icons, versions, meta, cache, now, last, req, fs, redis, ttl, seen>>

SyncAllNextSkipsUncounted ==
  /\ figma.call = "syncAllIcons"
  /\ figma.pc = "loop"
  /\ figma' =
       IF figma.i > Len(figma.components) THEN Return(figma, FALSE, NoError)
       ELSE IF figma.incremental
               /\ IconNames[figma.components[figma.i]] \in figma.existing
       THEN [figma EXCEPT !.log = Append(@, "skipped"), !.i = @ + 1]
       ELSE [figma EXCEPT !.pc = "exportUrl", !.retry = StartRetry("exportUrl")]
  /\ UNCHANGED <<icons, versions, meta, cache, now, last, req, fs, redis, ttl, seen>>

SyncAllNextNoSkip ==
  /\ figma.call = "syncAllIcons"
  /\ figma.pc = "loop"
  /\ figma' =
       IF figma.i > Len(figma.components) THEN Return(figma, FALSE, NoError)
       ELSE [figma EXCEPT !.pc = "exportUrl", !.retry = StartRetry("exportUrl")]
  /\ UNCHANGED <<icons, versions, meta, cache, now, last, req, fs, redis, ttl, seen>>

\* The head of syncAllIcons' loop: past the last component the result is
\* returned; an existing icon is skipped in incremental mode; otherwise
\* syncIcon is called and its export starts.
SyncAllNext ==
  /\ figma.call = "syncAllIcons"
  /\ figma.pc = "loop"
  /\ figma' =
       IF figma.i > Len(figma.components) THEN Return(figma, FALSE, NoError)
       ELSE IF figma.incremental
               /\ IconNames[figma.components[figma.i]] \in figma.existing
       THEN [figma EXCEPT !.result.success = @ + 1,
                          !.log = Append(@, "skipped"), !.i = @ + 1]
       ELSE [figma EXCEPT !.pc = "exportUrl", !.retry = StartRetry("exportUrl")]
  /\ UNCHANGED <<icons, versions, meta, cache, now, last, req, fs, redis, ttl, seen>>

SyncIconThrowsUncounted(f, componentId, error, what) ==
  IF f.call = "syncAllIcons"
  THEN [f EXCEPT !.result.errors = Append(@, [componentId |-> Join(componentId),
                                             error |-> error.message]),
                 !.log = Append(@, what), !.i = @ + 1, !.pc = "loop",
                 !.retry = NoRetry]
  ELSE Return(f, TRUE, error)

SyncIconThrowsAborts(f, componentId, error, what) ==
  IF f.call = "syncAllIcons"
  THEN [f EXCEPT !.result.failed = @ + 1,
                 !.result.errors = Append(@, [componentId |-> Join(componentId),
                                             error |-> error.message]),
                 !.log = Append(@, what), !.i = Len(f.components) + 1,
                 !.pc = "loop", !.retry = NoRetry]
  ELSE Return(f, TRUE, error)

\* syncIcon throws inside syncAllIcons' loop: the failure is counted and
\* recorded, and the loop goes on; alone, the call throws.
SyncIconThrows(f, componentId, error, what) ==
  IF f.call = "syncAllIcons"
  THEN [f EXCEPT !.result.failed = @ + 1,
                 !.result.errors = Append(@, [componentId |-> Join(componentId),
                                             error |-> error.message]),
                 !.log = Append(@, what), !.i = @ + 1, !.pc = "loop",
                 !.retry = NoRetry]
  ELSE Return(f, TRUE, error)

\* Variant: once a component's image URL is known the loop moves on to the
\* next component without waiting for the download and the addIcon.
ExportUrlReturnMovesOn ==
  /\ figma.pc = "exportUrl"
  /\ Done(figma.retry)
  /\ figma' =
       IF figma.retry.status = "threw"
       THEN SyncIconThrows(figma, figma.components[figma.i].id,
                           figma.retry.thrown, "exportFailed")
       ELSE IF figma.call = "syncAllIcons" /\ figma.i < Len(figma.components)
       THEN [figma EXCEPT !.i = @ + 1, !.retry = StartRetry("exportUrl")]
       ELSE [figma EXCEPT !.pc = "download", !.retry = StartRetry("download")]
  /\ UNCHANGED <<icons, versions, meta, cache, now, last, req, fs, redis, ttl, seen>>

\* exportComponentAsSVG after the executeWithRetry that gets the image URL.
ExportUrlReturn ==
  /\ figma.pc = "exportUrl"
  /\ Done(figma.retry)
  /\ figma' =
       IF figma.retry.status = "threw"
       THEN SyncIconThrows(figma, figma.components[figma.i].id,
                           figma.retry.thrown, "exportFailed")
       ELSE [figma EXCEPT !.pc = "download", !.retry = StartRetry("download")]
  /\ UNCHANGED <<icons, versions, meta, cache, now, last, req, fs, redis, ttl, seen>>

\* exportComponentAsSVG after the executeWithRetry that downloads the SVG.
DownloadReturn ==
  /\ figma.pc = "download"
  /\ Done(figma.retry)
  /\ figma' =
       IF figma.retry.status = "threw"
       THEN SyncIconThrows(figma, figma.components[figma.i].id,
                           figma.retry.thrown, "exportFailed")
       ELSE IF figma.call = "exportComponentAsSVG"
       THEN Return(figma, FALSE, NoError)
       ELSE [figma EXCEPT !.pc = "addIcon", !.retry = NoRetry]
  /\ UNCHANGED <<icons, versions, meta, cache, now, last, req, fs, redis, ttl, seen>>

\* syncIcon applies the exported SVG: addIcon under 'overwrite'.
SyncIconAddIcon ==
  /\ figma.pc = "addIcon"
  /\ CanMutate(figma.ns)
  /\ LET component == figma.components[figma.i]
     IN  /\ AddIconCall("addIcon", figma.ns, IconNames[component],
                        component.svg, "overwrite", "undefined")
         /\ figma' =
              IF last'.result # "ok"
              THEN SyncIconThrows(figma, component.id,
                                  PlainError(last'.result), "applyFailed")
              ELSE IF figma.call = "syncAllIcons"
              THEN [figma EXCEPT !.result.success = @ + 1,
                                 !.log = Append(@, "applied"), !.i = @ + 1,
                                 !.pc = "loop"]
              ELSE Return(figma, FALSE, NoError)
  /\ UNCHANGED <<cache, req, fs, redis, ttl, seen>>

NextSync ==
  \/ Tick
  \/ \E apiToken \in BOOLEAN, fileId \in BOOLEAN : Connect(apiToken, fileId)
  \/ \E error \in {NoError} \cup RemoteErrors : RemoteRequest(error)
  \/ ConnectReturn
  \/ FetchIconComponents
  \/ FetchReturn
  \/ \E component \in Components : ExportComponentAsSVG(component)
  \/ \E component \in Components, ns \in Namespaces : SyncIcon(component, ns)
  \/ \E ns \in Namespaces, incremental \in BOOLEAN : SyncAllIcons(ns, incremental)
  \/ SyncAllFetched
  \/ SyncAllNext
  \/ ExportUrlReturn
  \/ DownloadReturn
  \/ SyncIconAddIcon

SpecSync == InitSync /\ [][NextSync]_vars

\* One FigmaIntegrator that POST /api/sync/figma has connected, running
\* syncAllIcons.
InitSyncRun ==
  /\ \/ /\ icons = [ns \in Namespaces |-> [n \in Names |-> NoIcon]]
        /\ meta = [ns \in Namespaces |-> NoMeta]
     \/ /\ icons = [ns \in Namespaces |-> Preloaded.icons]
        /\ meta = [ns \in Namespaces |-> Preloaded.meta]
  /\ versions = [ns \in Namespaces |-> [n \in Names |-> NoVersions]]
  /\ cache = [ns \in Namespaces |-> NoCache]
  /\ now = 1
  /\ last = Idle
  /\ req = [r \in Reqs |-> NoRequest]
  /\ fs = NoFiles
  /\ redis = NoKeys
  /\ ttl = DefaultTTL
  /\ seen = NoneSeen
  /\ figma = [NewIntegrator(TRUE, TRUE) EXCEPT
                !.isConnected = TRUE, !.lastConnect = "ok"]

\* Every remote request and every store call of the run returns or fails,
\* and the continuation after each await runs.
SyncStep ==
  \/ \E error \in {NoError} \cup RemoteErrors : RemoteRequest(error)
  \/ SyncAllFetched
  \/ SyncAllNext
  \/ ExportUrlReturn
  \/ DownloadReturn
  \/ SyncIconAddIcon

NextSyncRun ==
  \/ \E ns \in Namespaces, incremental \in BOOLEAN : SyncAllIcons(ns, incremental)
  \/ SyncStep

SpecSyncRun == InitSyncRun /\ [][NextSyncRun]_vars /\ WF_vars(SyncStep)

\* ------------------------------------- actions: the two storage backends
\* The same IStorageLayer call is applied to a StorageLayer and to a
\* RedisStorageLayer that both start empty.
StoreCall(op, ns, name, data) ==
  [op |-> op, ns |-> ns, name |-> name, data |-> data]

InitStore ==
  /\ icons = [ns \in Namespaces |-> [n \in Names |-> NoIcon]]
  /\ versions = [ns \in Namespaces |-> [n \in Names |-> NoVersions]]
  /\ meta = [ns \in Namespaces |-> NoMeta]
  /\ cache = [ns \in Namespaces |-> NoCache]
  /\ now = 1
  /\ last = Idle
  /\ req = [r \in Reqs |-> NoRequest]
  /\ figma = NewIntegrator(TRUE, TRUE)
  /\ fs = NoFiles
  /\ redis = NoKeys
  /\ ttl = DefaultTTL
  /\ seen = NoneSeen

StoreSaveIcon(ns, name, data) ==
  /\ fs' = FileSaveIcon(fs, ns, name, data)
  /\ redis' = RedisSaveIcon(redis, ns, name, data)
  /\ last' = StoreCall("saveIcon", ns, name, data)
  /\ UNCHANGED <<icons, versions, meta, cache, now, req, figma, ttl, seen>>

StoreDeleteIcon(ns, name) ==
  /\ fs' = FileDeleteIcon(fs, ns, name)
  /\ redis' = RedisDeleteIcon(redis, ns, name)
  /\ last' = StoreCall("deleteIcon", ns, name, NoIcon)
  /\ UNCHANGED <<icons, versions, meta, cache, now, req, figma, ttl, seen>>

StoreSaveIconSetMetadata(ns, metadata) ==
  /\ fs' = FileSaveIconSetMetadata(fs, ns, metadata)
  /\ redis' = RedisSaveIconSetMetadata(redis, ns, metadata)
  /\ last' = StoreCall("saveIconSetMetadata", ns, "", metadata)
  /\ UNCHANGED <<icons, versions, meta, cache, now, req, figma, ttl, seen>>

StoreSaveIconVersion(ns, name, versionId, data) ==
  /\ fs' = FileSaveIconVersion(fs, ns, name, versionId, data)
  /\ redis' = RedisSaveIconVersion(redis, ns, name, versionId, data, now)
  /\ last' = StoreCall("saveIconVersion", ns, name, data)
  /\ UNCHANGED <<icons, versions, meta, cache, now, req, figma, ttl, seen>>

NextStore ==
  \/ \E ns \in StoreNamespaces, name \in Names, data \in IconDatas :
       StoreSaveIcon(ns, name, data)
  \/ \E ns \in StoreNamespaces, name \in Names : StoreDeleteIcon(ns, name)
  \/ \E ns \in StoreNamespaces : StoreSaveIconSetMetadata(
         ns, [prefix |-> Str("gd"), name |-> Str("gd"), total |-> Num("1"),
              version |-> Str("1.0.0"), lastModified |-> Num("1")])
  \/ \E ns \in StoreNamespaces, name \in Names, versionId \in VersionIds :
       StoreSaveIconVersion(ns, name, versionId, Icon24)

SpecStore == InitStore /\ [][NextStore]_vars

\* ------------------------------------------ discovery of the components
\* A node of the document tree GET /files/:fileId returns; componentId is
\* empty on a node that has none.
Node(id, type, componentId, children) ==
  [id |-> id, name |-> "node " \o id, type |-> type,
   componentId |-> componentId, children |-> children]

\* Bound on the number of nodes of one file, the document and its canvas and
\* frame aside.
MaxNodes == 3

\* The document: a canvas holding the first node and a frame with the rest.
DocumentOf(nodes) ==
  Node("0:0", "DOCUMENT", "",
       <<Node("0:1", "CANVAS", "",
              IF Len(nodes) <= 1 THEN nodes
              ELSE <<nodes[1], Node("0:2", "FRAME", "", Tail(nodes))>>)>>)

\* The responses of GET /files/:fileId. The nodes: two component definitions,
\* two instances of the first, one of the second, and an instance without
\* componentId, each at most once. The published components, as
\* Object.entries lists them: the third has no definition in the tree.
Responses ==
  LET treeNodes == {Node("1:1", "COMPONENT", "", << >>),
                    Node("1:2", "COMPONENT", "", << >>),
                    Node("2:1", "INSTANCE", "1:1", << >>),
                    Node("2:2", "INSTANCE", "1:1", << >>),
                    Node("2:3", "INSTANCE", "1:2", << >>),
                    Node("2:4", "INSTANCE", "", << >>)}
      nodeLists == {s \in UNION {[1..n -> treeNodes] : n \in 0..MaxNodes} :
                      \A i, j \in DOMAIN s : i # j => s[i] # s[j]}
      publishedLists ==
        {SelectSeq(<<"1:1", "1:2", "1:3">>, LAMBDA id : id \in ids) :
           ids \in SUBSET {"1:1", "1:2", "1:3"}}
  IN  {[components |-> published, document |-> DocumentOf(nodes)] :
         published \in publishedLists, nodes \in nodeLists}

RECURSIVE ExtractComponents(_)
RECURSIVE ExtractComponentsOfChildren(_)
ExtractComponents(node) ==
  (IF node.type = "COMPONENT"
   THEN <<[id |-> node.id, name |-> node.name, type |-> node.type,
           componentId |-> ""]>>
   ELSE << >>) \o ExtractComponentsOfChildren(node.children)

ExtractComponentsOfChildren(children) ==
  IF children = << >> THEN << >>
  ELSE ExtractComponents(Head(children))
         \o ExtractComponentsOfChildren(Tail(children))

RECURSIVE ExtractInstances(_)
RECURSIVE ExtractInstancesOfChildren(_)
ExtractInstances(node) ==
  (IF node.type = "INSTANCE" /\ node.componentId # ""
   THEN <<[id |-> node.id, name |-> node.name, type |-> "INSTANCE",
           componentId |-> node.componentId]>>
   ELSE << >>) \o ExtractInstancesOfChildren(node.children)

ExtractInstancesOfChildren(children) ==
  IF children = << >> THEN << >>
  ELSE ExtractInstances(Head(children))
         \o ExtractInstancesOfChildren(Tail(children))

\* The published components that no entry so far is an instance of.
RECURSIVE AddPublished(_, _)
AddPublished(components, published) ==
  IF published = << >> THEN components
  ELSE LET id == Head(published)
           hasInstance == \E i \in DOMAIN components :
                            components[i].componentId = id
       IN  AddPublished(
             IF hasInstance THEN components
             ELSE Append(components,
                         [id |-> id, name |-> "published " \o id,
                          type |-> "COMPONENT", componentId |-> ""]),
             Tail(published))

\* The tree's component definitions that are not in the list yet.
RECURSIVE AddTreeComponents(_, _)
AddTreeComponents(components, treeComponents) ==
  IF treeComponents = << >> THEN components
  ELSE LET treeComp == Head(treeComponents)
           found == \E i \in DOMAIN components :
                      \/ components[i].id = treeComp.id
                      \/ components[i].componentId = treeComp.id
       IN  AddTreeComponents(
             IF found THEN components ELSE Append(components, treeComp),
             Tail(treeComponents))

\* Variant: the published components are added whether or not an instance
\* of them was found.
CollectComponentsAllPublished(data) ==
  AddTreeComponents(
    ExtractInstances(data.document)
      \o [i \in DOMAIN data.components |->
            [id |-> data.components[i],
             name |-> "published " \o data.components[i],
             type |-> "COMPONENT", componentId |-> ""]],
    ExtractComponents(data.document))

\* What fetchIconComponents makes of the response: the instances, then the
\* published components, then the tree's definitions.
CollectComponents(data) ==
  AddTreeComponents(
    AddPublished(ExtractInstances(data.document), data.components),
    ExtractComponents(data.document))

\* The response of GET /files/:fileId has arrived.
InitDiscovery ==
  /\ icons = [ns \in Namespaces |-> [n \in Names |-> NoIcon]]
  /\ versions = [ns \in Namespaces |-> [n \in Names |-> NoVersions]]
  /\ meta = [ns \in Namespaces |-> NoMeta]
  /\ cache = [ns \in Namespaces |-> NoCache]
  /\ now = 1
  /\ req = [r \in Reqs |-> NoRequest]
  /\ figma = NewIntegrator(TRUE, TRUE)
  /\ fs = NoFiles
  /\ redis = NoKeys
  /\ ttl = DefaultTTL
  /\ seen = NoneSeen
  /\ \E data \in Responses : last = [op |-> "GET /files", data |-> data]

FetchIconComponentsCollect ==
  /\ last.op = "GET /files"
  /\ last' = [op |-> "fetchIconComponents", data |-> last.data,
              result |-> CollectComponents(last.data)]
  /\ UNCHANGED <<icons, versions, meta, cache, now, req, figma, fs, redis, ttl, seen>>

NextDiscovery == FetchIconComponentsCollect

SpecDiscovery == InitDiscovery /\ [][NextDiscovery]_vars

\* ------------------------------------------------- names of synced icons
\* Bound on the length of a component name, an icon prefix aside.
MaxNameLen == 3

\* syncIcon is called for a component: a name of a few characters of each
\* kind, with or without an icon prefix, and an id as Figma or a test gives it.
InitNames ==
  /\ icons = [ns \in Namespaces |-> [n \in Names |-> NoIcon]]
  /\ versions = [ns \in Namespaces |-> [n \in Names |-> NoVersions]]
  /\ meta = [ns \in Namespaces |-> NoMeta]
  /\ cache = [ns \in Namespaces |-> NoCache]
  /\ now = 1
  /\ req = [r \in Reqs |-> NoRequest]
  /\ figma = NewIntegrator(TRUE, TRUE)
  /\ fs = NoFiles
  /\ redis = NoKeys
  /\ ttl = DefaultTTL
  /\ seen = NoneSeen
  /\ \E prefix \in {<< >>, <<"I", "c", "o", "n", "-">>,
                    <<"i", "c", "o", "n", "_">>},
        chars \in UNION {[1..n -> {"H", "m", "7", " ", "!", "-"}] :
                           n \in 0..MaxNameLen},
        id \in {<<"1", ":", "2", "3">>,
                <<"c", "o", "m", "p", "-", "1", "2", "3", "4", "5", "6",
                  "7", "8">>} :
       last = [op |-> "syncIcon", id |-> id, name |-> prefix \o chars]

\* syncIcon derives the icon name it hands to addIcon.
SyncIconName ==
  /\ last.op = "syncIcon"
  /\ last' = [op |-> "addIcon", id |-> last.id, name |-> last.name,
              iconName |-> IconNameChars(last)]
  /\ UNCHANGED <<icons, versions, meta, cache, now, req, figma, fs, redis, ttl, seen>>

NextNames == SyncIconName

SpecNames == InitNames /\ [][NextNames]_vars

\* --------------------------------------------- actions: CacheManager calls
\* A CacheManager constructed with some TTL, called directly for a handful of
\* namespaces.
CacheNamespaces == {"gd", "custom"}

\* The directives of a Cache-Control header, in order.
Directive(name) == [name |-> name]
MaxAge(seconds) == [name |-> "max-age", value |-> seconds]

\* Variant: max-age is the default TTL whatever the manager's TTL is.
GetCacheHeadersDefaultMaxAge(c, seconds, ns, isDevelopment, t) ==
  LET iconSet == GetCachedIconSet(c, ns)
  IN  [CacheControl |->
         IF isDevelopment
         THEN <<Directive("no-cache"), Directive("no-store"),
                Directive("must-revalidate")>>
         ELSE <<Directive("public"), MaxAge(DefaultTTL),
                Directive("immutable")>>,
       ETag |-> GetCacheHeadersETag(c, ns, t),
       LastModified |-> IF iconSet # NoCache THEN iconSet.lastModified ELSE t]

GetCacheHeaders(c, seconds, ns, isDevelopment, t) ==
  LET iconSet == GetCachedIconSet(c, ns)
  IN  [CacheControl |->
         IF isDevelopment
         THEN <<Directive("no-cache"), Directive("no-store"),
                Directive("must-revalidate")>>
         ELSE <<Directive("public"), MaxAge(seconds), Directive("immutable")>>,
       ETag |-> GetCacheHeadersETag(c, ns, t),
       LastModified |-> IF iconSet # NoCache THEN iconSet.lastModified ELSE t]

InitCache ==
  /\ icons = [ns \in Namespaces |-> [n \in Names |-> NoIcon]]
  /\ versions = [ns \in Namespaces |-> [n \in Names |-> NoVersions]]
  /\ meta = [ns \in Namespaces |-> NoMeta]
  /\ cache = [ns \in CacheNamespaces |-> NoCache]
  /\ now = 1
  /\ last = Idle
  /\ req = [r \in Reqs |-> NoRequest]
  /\ figma = NewIntegrator(TRUE, TRUE)
  /\ fs = NoFiles
  /\ redis = NoKeys
  /\ ttl \in {60, 3600, 7200, DefaultTTL}
  /\ seen = NoneSeen

CacheIconSetCall(ns, iconSet) ==
  /\ iconSet.prefix = ns
  /\ cache' = CacheIconSet(cache, ns, iconSet)
  /\ last' = [op |-> "cacheIconSet", ns |-> ns]
  /\ UNCHANGED <<icons, versions, meta, now, req, figma, fs, redis, ttl, seen>>

\* invalidateCache(namespace) and invalidateCache(namespace, iconName);
\* deleted is the number of keys cache.del removed.
InvalidateCacheCall(ns, iconName) ==
  /\ cache' = InvalidateCacheIcon(cache, ns, iconName)
  /\ last' = [op |-> "invalidateCache", ns |-> ns, name |-> iconName,
              deleted |-> IF cache[ns] # NoCache THEN 1 ELSE 0]
  /\ UNCHANGED <<icons, versions, meta, now, req, figma, fs, redis, ttl, seen>>

GetCacheHeadersCall(ns, isDevelopment) ==
  /\ last' = [op |-> "getCacheHeaders", ns |-> ns,
              isDevelopment |-> isDevelopment,
              headers |-> GetCacheHeaders(cache, ttl, ns, isDevelopment, now)]
  /\ UNCHANGED <<icons, versions, meta, cache, now, req, figma, fs, redis, ttl, seen>>

NextCache ==
  \/ \E ns \in CacheNamespaces, set \in CacheNamespaces,
          ic \in {Preloaded.icons,
                  SaveIcon(Preloaded.icons, "menu", ParseSVG(Svg32))} :
       CacheIconSetCall(ns, LoadIconSet(set, ic, NoMeta, 1))
  \/ \E ns \in CacheNamespaces, iconName \in {"undefined", ""} \cup Names :
       InvalidateCacheCall(ns, iconName)
  \/ \E ns \in CacheNamespaces, isDevelopment \in BOOLEAN :
       GetCacheHeadersCall(ns, isDevelopment)

SpecCache == InitCache /\ [][NextCache]_vars

\* ================================================================ claims
\* The strategy inputs under which addIcon is asked to reject / to overwrite.
AsksReject(c) ==
  c.opt = "reject" \/ (c.opt = "undefined" /\ c.env = "undefined")

AsksOverwrite(c) ==
  c.opt = "overwrite" \/ (c.opt = "undefined" /\ c.env = "overwrite")

Snapshotting == {"addIcon", "upload", "updateIcon", "rollbackToVersion", "saveVersion"}

\* C1: whenever the current asset of a name is replaced by another value,
\* the replaced value is held by some entry of that name's version history.
C1_ReplacedIsSnapshotted ==
  [][\A ns \in Namespaces, n \in Names :
       (icons[ns][n] # NoIcon /\ icons'[ns][n] # NoIcon
          /\ icons'[ns][n] # icons[ns][n])
       => \E v \in DOMAIN versions'[ns][n] : versions'[ns][n][v] = icons[ns][n]]_vars

\* C2: addIcon on an existing name under 'reject' (explicit, or by default
\* with no option and no ICON_CONFLICT_STRATEGY) fails with a ConflictError
\* and leaves the current asset, the history and the metadata unchanged.
C2_RejectLeavesStoreUnchanged ==
  [][(last'.op = "addIcon" /\ AsksReject(last')
        /\ icons[last'.ns][last'.name] # NoIcon)
     => (last'.result = "ConflictError" /\ UNCHANGED <<icons, versions, meta>>)]_vars

C2_Witness ==
  /\ last.op = "addIcon"
  /\ last.result = "ConflictError"
  /\ last.opt = "undefined"
  /\ last.env = "undefined"
  /\ icons[last.ns][last.name] # NoIcon
  /\ meta[last.ns] # NoMeta

\* C3: addIcon on an existing name under 'overwrite' with valid data
\* succeeds, makes the canonicalized new data current and adds exactly one
\* history entry, holding the asset that was current before the call.
C3_OverwriteAddsOneVersion ==
  [][(last'.op = "addIcon" /\ AsksOverwrite(last')
        /\ icons[last'.ns][last'.name] # NoIcon
        /\ ParseSVG(last'.raw) # ParseError)
     => LET before == versions[last'.ns][last'.name]
            after == versions'[last'.ns][last'.name]
        IN  /\ last'.result = "ok"
            /\ icons'[last'.ns][last'.name] = ParseSVG(last'.raw)
            /\ Cardinality(DOMAIN after) = Cardinality(DOMAIN before) + 1
            /\ \A v \in DOMAIN after \ DOMAIN before :
                 after[v] = icons[last'.ns][last'.name]]_vars

\* C4: a version id once listed stays listed and keeps returning the data
\* it was first stored with.
C4_VersionsImmutable ==
  [][\A ns \in Namespaces, n \in Names : \A v \in DOMAIN versions[ns][n] :
       /\ v \in DOMAIN versions'[ns][n]
       /\ versions'[ns][n][v] = versions[ns][n][v]]_vars

\* C5: every snapshot gets a version id strictly greater than every id
\* already in that asset's history.
C5_SnapshotIdsIncrease ==
  [][(last'.op \in Snapshotting /\ last'.snap # 0)
     => \A v \in DOMAIN versions[last'.ns][last'.name] : last'.snap > v]_vars

\* C6: after a successful rollbackToVersion(name, versionId) the current
\* asset equals the data stored under versionId before the call, and
\* versionId still returns that data.
C6_RollbackRestoresVersion ==
  [][(last'.op = "rollbackToVersion" /\ last'.result = "ok")
     => LET target == versions[last'.ns][last'.name][last'.vid]
        IN  /\ icons'[last'.ns][last'.name] = target
            /\ ReadIconVersion(versions'[last'.ns], last'.name, last'.vid) = target]_vars

\* C7: rollbackToVersion with a version id that does not exist for the name
\* fails with version-not-found and leaves the current asset, the history
\* and the metadata unchanged.
C7_RollbackToMissingVersionFails ==
  [][(last'.op = "rollbackToVersion"
        /\ last'.vid \notin DOMAIN versions[last'.ns][last'.name])
     => (last'.result = "VersionNotFound" /\ UNCHANGED <<icons, versions, meta>>)]_vars

C7_Witness ==
  /\ last.op = "rollbackToVersion"
  /\ last.result = "VersionNotFound"
  /\ icons[last.ns][last.name] # NoIcon
  /\ DOMAIN versions[last.ns][last.name] # {}
  /\ last.vid \notin DOMAIN versions[last.ns][last.name]

\* C8: a successful rollbackToVersion(name, v) taken while the current asset
\* is C leaves a version id w # v holding C, and a following
\* rollbackToVersion(name, w) makes C current again.
C8_RollbackIsReversible ==
  [][/\ (last'.op = "rollbackToVersion" /\ last'.result = "ok"
           /\ icons[last'.ns][last'.name] # NoIcon)
        => \E w \in DOMAIN versions'[last'.ns][last'.name] :
             /\ w # last'.vid
             /\ versions'[last'.ns][last'.name][w] = icons[last'.ns][last'.name]
     /\ (last.op = "rollbackToVersion" /\ last.result = "ok" /\ last.snap # 0
           /\ last'.op = "rollbackToVersion" /\ last'.result = "ok"
           /\ last'.ns = last.ns /\ last'.name = last.name
           /\ last'.vid = last.snap)
        => icons'[last.ns][last.name] = versions[last.ns][last.name][last.snap]]_vars

AllCompleted == \A r \in Reqs : req[r].pc \in {"idle", "done"}

\* C9: for any interleaving of read requests with upload and delete
\* requests, once all requests have completed, a collection held in the
\* cache for a namespace has exactly the store's current assets of that
\* namespace.
C9_CacheCoherentAfterRequests ==
  \A ns \in Namespaces :
    (AllCompleted /\ cache[ns] # NoCache)
    => cache[ns].icons = LoadIconSet(ns, icons[ns], meta[ns], now).icons

\* C10: after every successful mutation of a namespace the cache holds no
\* collection for that namespace that was cached before the mutation.
C10_MutationInvalidatesCache ==
  [][(last'.op \in {"upload", "delete", "updateIcon", "rollbackToVersion"}
        /\ last'.result = "ok")
     => cache'[last'.ns] = NoCache]_vars

\* The ETag GET /collection answers with: the route fills the cache on a
\* miss and then asks getCacheHeaders.
CollectionETag(ns) ==
  LET cached == GetCachedIconSet(cache, ns)
      iconSet == IF cached # NoCache THEN cached
                 ELSE LoadIconSet(ns, icons[ns], meta[ns], now)
  IN  GetCacheHeadersETag(CacheIconSet(cache, ns, iconSet), ns, now)

\* C11: when GET /collection has handed out a validator token for a
\* namespace (its collection is cached) and a mutation of the namespace then
\* succeeds, the token GET /collection hands out right after the mutation
\* differs from the one before it.
C11_TokenChangesOnMutation ==
  [][\A ns \in Namespaces :
       (last'.op \in {"upload", "delete", "updateIcon", "rollbackToVersion"}
          /\ last'.result = "ok"
          /\ last'.ns = ns
          /\ cache[ns] # NoCache)
       => CollectionETag(ns)' # CollectionETag(ns)]_vars

\* The integrator's guarded operations, and the steps of a call.
GuardedCalls == {"fetchIconComponents", "exportComponentAsSVG", "syncIcon", "syncAllIcons"}

FailedExports == {i \in DOMAIN figma.log : figma.log[i] = "exportFailed"}

SyncReturned ==
  figma.call = "none" /\ figma.ret.op = "syncAllIcons" /\ ~figma.ret.threw

\* C12: when a sync run over N discovered components ends with the export of
\* exactly one component having failed (and no other failure), all N were
\* processed, the result has failed = 1, success = N - 1 and one errors entry
\* naming the failing component, and each of the other N - 1 components is a
\* current asset of the store.
C12_SyncFailureIsolation ==
  (SyncReturned /\ figma.components # << >>
     /\ Cardinality(FailedExports) = 1
     /\ \A i \in DOMAIN figma.log : figma.log[i] # "applyFailed")
  => LET k == CHOOSE i \in FailedExports : TRUE
         N == Len(figma.components)
     IN  /\ Len(figma.log) = N
         /\ figma.ret.result.failed = 1
         /\ figma.ret.result.success = N - 1
         /\ Len(figma.ret.result.errors) = 1
         /\ figma.ret.result.errors[1].componentId = Join(figma.components[k].id)
         /\ \A j \in (1..N) \ {k} :
              ReadIcon(icons[figma.ns], IconNameOf(figma.components[j])) # NoIcon

C12_Witness ==
  /\ SyncReturned
  /\ ~figma.incremental
  /\ figma.log = <<"exportFailed", "applied">>
  /\ figma.ret.result.success = 1

\* C13: when the discovery of a sync run fails after its retries,
\* syncAllIcons does not throw and returns a result whose errors record the
\* failure, no component was exported, and no step of the run up to there
\* changed an icon, a version or the metadata.
C13_DiscoveryFailureLeavesStore ==
  [][/\ (figma.call = "syncAllIcons" /\ figma.pc = "fetch"
           /\ figma.retry.status = "threw" /\ figma' # figma)
        => /\ figma'.call = "none"
           /\ figma'.ret.op = "syncAllIcons"
           /\ ~figma'.ret.threw
           /\ figma'.ret.result =
                [success |-> 0, failed |-> 0,
                 errors |-> <<[componentId |-> "N/A",
                               error |-> "Failed to fetch components"]>>]
           /\ figma'.log = << >>
           /\ UNCHANGED <<icons, versions, meta>>
     /\ (figma'.call = "syncAllIcons" /\ figma'.pc = "fetch")
        => UNCHANGED <<icons, versions, meta>>]_vars

C13_Witness ==
  /\ SyncReturned
  /\ Len(figma.ret.result.errors) = 1
  /\ figma.ret.result.errors[1].componentId = "N/A"
  /\ \E ns \in Namespaces : ListIcons(icons[ns]) # {}

\* C14: executeWithRetry calls the request at most 4 times; once it has
\* returned or thrown it calls it no more; and when it throws a retryable
\* error it has made exactly 4 calls and throws the error of the last one.
C14_AtMostFourAttempts ==
  [][/\ figma'.retry.calls <= 4
     /\ (figma'.retry.status = "threw"
           /\ IsRetryableError(CategorizeError(figma'.retry.thrown)))
        => figma'.retry.calls = 4
     /\ figma'.retry.status = "threw"
        => figma'.retry.thrown = figma'.retry.lastError
     /\ (figma.retry.status \in {"returned", "threw"}
           /\ figma'.retry.op = figma.retry.op)
        => figma'.retry.calls \in {figma.retry.calls, 0}]_vars

C14_Witness ==
  /\ figma.retry.status = "threw"
  /\ figma.retry.calls = 4
  /\ CategorizeError(figma.retry.thrown) = "RATE_LIMIT_ERROR"

C16_NothingRunsUnconnected ==
  [][/\ (figma'.call \in GuardedCalls)
        => (figma'.isConnected /\ figma'.lastConnect = "ok")
     /\ (figma.call = "none" /\ ~figma.isConnected /\ figma' # figma
           /\ figma'.call # "connect" /\ figma'.ret.op # "connect")
        => /\ figma'.call = "none"
           /\ figma'.ret.op \in GuardedCalls
           /\ figma'.ret.threw
           /\ figma'.ret.error = NotConnectedError
           /\ figma'.retry = NoRetry
           /\ UNCHANGED <<icons, versions, meta>>
     /\ (figma'.call = "none" /\ figma'.lastConnect = "failed")
        => ~figma'.isConnected]_vars

C16_Witness ==
  /\ figma.call = "none"
  /\ figma.ret.op = "syncAllIcons"
  /\ figma.ret.error = NotConnectedError
  /\ figma.lastConnect = "failed"
  /\ figma.apiToken /\ figma.fileId

Mutations == {"addIcon", "updateIcon", "removeIcon", "rollbackToVersion"}

\* C18: after addIcon, updateIcon, removeIcon and rollbackToVersion calls
\* run one at a time, the persisted metadata total of a namespace equals the
\* number of names listIcons returns for it, and a namespace with icons has
\* metadata.
C18_TotalCountsIcons ==
  \A ns \in Namespaces :
    IF meta[ns] = NoMeta THEN ListIcons(icons[ns]) = {}
    ELSE meta[ns].total = Cardinality(ListIcons(icons[ns]))

C18_Witness ==
  /\ last.op = "removeIcon"
  /\ last.result = "ok"
  /\ meta[last.ns].total = 1
  /\ meta[last.ns].version = <<1, 0, 2>>

\* C19: every successful mutating call advances the metadata version: the
\* first one of a namespace sets 1.0.0 and each later one replaces a.b.n by
\* a.b.(n+1).
C19_VersionAdvances ==
  [][(last'.op \in Mutations /\ last'.result = "ok")
     => IF meta[last'.ns] = NoMeta
        THEN meta'[last'.ns].version = <<1, 0, 0>>
        ELSE /\ Len(meta'[last'.ns].version) = 3
             /\ meta'[last'.ns].version[1] = meta[last'.ns].version[1]
             /\ meta'[last'.ns].version[2] = meta[last'.ns].version[2]
             /\ meta'[last'.ns].version[3] = meta[last'.ns].version[3] + 1]_vars

C19_Witness ==
  /\ last.op = "rollbackToVersion"
  /\ last.result = "ok"
  /\ meta[last.ns].version = <<1, 0, 2>>

\* C20: after every successful mutating call the persisted lastModified of
\* the namespace is strictly greater than the one persisted before it.
C20_LastModifiedIncreases ==
  [][(last'.op \in Mutations /\ last'.result = "ok" /\ meta[last'.ns] # NoMeta)
     => meta'[last'.ns].lastModified > meta[last'.ns].lastModified]_vars

\* C21: removeIcon of an existing icon leaves getIcon of that name null and
\* the name absent from listIcons, while the version ids and version data of
\* that name and the current icon of every other name stay as they were.
C21_RemoveLeavesVersionsAndOthers ==
  [][(last'.op = "removeIcon" /\ last'.result = "ok"
        /\ icons[last'.ns][last'.name] # NoIcon)
     => /\ ReadIcon(icons'[last'.ns], last'.name) = NoIcon
        /\ last'.name \notin ListIcons(icons'[last'.ns])
        /\ versions' = versions
        /\ \A n \in Names \ {last'.name} :
             icons'[last'.ns][n] = icons[last'.ns][n]]_vars

C21_Witness ==
  /\ last.op = "removeIcon"
  /\ last.result = "ok"
  /\ meta[last.ns].total = 1
  /\ meta[last.ns].version = <<1, 0, 2>>
  /\ ListIconVersions(versions[last.ns], last.name) # {}
  /\ icons[last.ns][last.name] = NoIcon

\* C22: right after saveIcon(ns, name, A) on the file backend, readIcon(ns,
\* name) returns a value equal to A, whatever the file held before.
C22_ReadReturnsWhatWasSaved ==
  [][(last'.op = "saveIcon")
     => FileReadIcon(fs', last'.ns, last'.name) = last'.data]_vars

\* C30: after any sequence of saveIcon, deleteIcon, saveIconSetMetadata and
\* saveIconVersion calls applied to the file backend and to the Redis
\* backend alike, readIcon, listIcons, readIconSetMetadata, listIconVersions
\* and readIconVersion return the same results on both (lists read as sets).
C30_BackendsAgree ==
  \A ns \in StoreNamespaces :
    /\ FileListIcons(fs, ns) = RedisListIcons(redis, ns)
    /\ FileReadIconSetMetadata(fs, ns) = RedisReadIconSetMetadata(redis, ns)
    /\ \A name \in Names :
         /\ FileReadIcon(fs, ns, name) = RedisReadIcon(redis, ns, name)
         /\ FileListIconVersions(fs, ns, name)
              = RedisListIconVersions(redis, ns, name)
         /\ \A versionId \in VersionIds :
              FileReadIconVersion(fs, ns, name, versionId)
                = RedisReadIconVersion(redis, ns, name, versionId)

\* C23: addIcon with an SVG that parseSVG refuses (not an SVG, or no
\* renderable element) ends with an SVGParseError and leaves every current
\* icon as it was, for a new name and for an existing name under 'overwrite'.
C23_ParseFailureKeepsIcons ==
  [][(/\ last'.op = "addIcon"
      /\ (~ValidateSVG(last'.raw) \/ last'.raw.shape = "")
      /\ (icons[last'.ns][last'.name] = NoIcon \/ AsksOverwrite(last')))
     => /\ last'.result = "SVGParseError"
        /\ icons' = icons]_vars

C23_Witness ==
  /\ last.op = "addIcon"
  /\ last.raw = SvgNoShape
  /\ AsksOverwrite(last)
  /\ last.snap # 0
  /\ last.result = "SVGParseError"
  /\ icons[last.ns][last.name] = ParseSVG(Svg24)

\* C24: two getCacheHeaders calls for the same namespace with no change of
\* the cache between them return the same ETag, when a collection is cached
\* and when nothing is cached yet.
C24_ETagDeterministic ==
  [][(cache' = cache)
     => \A ns \in Namespaces :
          GetCacheHeadersETag(cache', ns, now')
            = GetCacheHeadersETag(cache, ns, now)]_vars

\* C25: invalidateCache(namespace) and invalidateCache(namespace, name), for
\* every name, leave nothing cached for that namespace and leave what is
\* cached for every other namespace as it was.
C25_InvalidationIsWholeNamespace ==
  [][(last'.op = "invalidateCache")
     => /\ GetCachedIconSet(cache', last'.ns) = NoCache
        /\ \A ns \in CacheNamespaces \ {last'.ns} : cache'[ns] = cache[ns]]_vars

C25_Witness ==
  /\ last.op = "invalidateCache"
  /\ last.name = "home"
  /\ last.deleted = 1
  /\ cache[last.ns] = NoCache
  /\ \E ns \in CacheNamespaces : cache[ns] # NoCache

Directives(cacheControl) == {cacheControl[i].name : i \in DOMAIN cacheControl}

MaxAgeOf(cacheControl) ==
  (CHOOSE d \in Range(cacheControl) : d.name = "max-age").value

InLoop == {"loop", "exportUrl", "download", "addIcon"}
InSyncIcon == {"exportUrl", "download", "addIcon"}

\* C27: within one syncAllIcons run the components are processed one after
\* another: while component i is being exported or applied every component
\* before it has its outcome recorded and no later one has started, and the
\* export of a component starts only from the head of the loop.
C27_OneComponentAtATime ==
  [][(figma'.call = "syncAllIcons" /\ figma'.pc \in InLoop)
     => /\ Len(figma'.log) = figma'.i - 1
        /\ figma'.result.success + figma'.result.failed = figma'.i - 1
        /\ (figma'.pc \in InSyncIcon)
             => /\ figma'.i \in 1..Len(figma'.components)
                /\ figma.call = "syncAllIcons"
                /\ figma.i = figma'.i
                /\ figma.pc \in InLoop
                /\ (figma'.pc = "exportUrl") => figma.pc \in {"loop", "exportUrl"}
                /\ (figma'.pc = "download") => figma.pc \in {"exportUrl", "download"}
                /\ (figma'.pc = "addIcon") => figma.pc \in {"download", "addIcon"}]_vars

C27_Witness ==
  /\ figma.call = "syncAllIcons"
  /\ figma.pc = "addIcon"
  /\ figma.i = 2
  /\ figma.log = <<"exportFailed">>

\* The metadata version bound of the model leaves room for one addIcon per
\* component of a run.
RoomForRun(ns) ==
  IF meta[ns] = NoMeta THEN TRUE
  ELSE meta[ns].version[3] + MaxComponents <= MaxPatch

SyncStarted ==
  /\ figma.call = "syncAllIcons"
  /\ figma.pc = "fetch"
  /\ RoomForRun(figma.ns)

SyncReturnedResult ==
  /\ figma.call = "none"
  /\ figma.ret.op = "syncAllIcons"
  /\ ~figma.ret.threw
  /\ figma.ret.result.success + figma.ret.result.failed
       <= Len(figma.components)

\* C28: when every remote request and store call returns or fails, a started
\* syncAllIcons run returns a SyncResult, and on the way its discovery makes
\* at most 4 attempts and each component at most 4 attempts for the image URL
\* and 4 for the download.
C28_SyncTerminates ==
  /\ [](figma.call = "syncAllIcons"
          => /\ figma.retry.calls <= 4
             /\ (figma.pc \in {"fetch", "exportUrl", "download"})
                  => figma.retry.op = figma.pc)
  /\ SyncStarted ~> SyncReturnedResult

C28_Witness ==
  /\ figma.call = "none"
  /\ figma.ret.op = "syncAllIcons"
  /\ figma.ret.result.success = 1
  /\ figma.ret.result.failed = 1
  /\ Len(figma.components) = 2

RECURSIVE NodesOf(_)
NodesOf(node) ==
  {node} \cup UNION {NodesOf(node.children[i]) : i \in DOMAIN node.children}

\* The ids of the component definitions of a response: published, or found
\* in the document tree.
DefinitionIds(data) ==
  Range(data.components)
    \cup {n.id : n \in {m \in NodesOf(data.document) : m.type = "COMPONENT"}}

HasInstanceInTree(data, id) ==
  \E n \in NodesOf(data.document) : n.type = "INSTANCE" /\ n.componentId = id

\* C29: discovery prefers instances: for every component definition id D,
\* published or found in the tree, the result of fetchIconComponents has no
\* entry with id D when the tree holds an instance whose componentId is D,
\* and exactly one entry with id D otherwise.
C29_DiscoveryPrefersInstances ==
  (last.op = "fetchIconComponents")
    => \A id \in DefinitionIds(last.data) :
         Cardinality({i \in DOMAIN last.result : last.result[i].id = id})
           = IF HasInstanceInTree(last.data, id) THEN 0 ELSE 1

C29_Witness ==
  /\ last.op = "fetchIconComponents"
  /\ last.data.components = <<"1:1", "1:2">>
  /\ HasInstanceInTree(last.data, "1:1")
  /\ ~HasInstanceInTree(last.data, "1:2")
  /\ "1:2" \in {n.id : n \in NodesOf(last.data.document)}
  /\ Len(last.result) = 2

\* C31: the wait before the k-th retry (k = 1, 2, 3) is 1000, 2000 and 4000
\* milliseconds, and no wait exceeds 10000 milliseconds.
C31_BackoffWaits ==
  /\ figma.retry.delayMs <= 10000
  /\ figma.retry.attempt \in 1..3
       => figma.retry.delayMs = <<1000, 2000, 4000>>[figma.retry.attempt]

C31_Witness ==
  /\ figma.retry.attempt = 3
  /\ figma.retry.delayMs = 4000
  /\ figma.retry.status = "running"

\* C32: connect with a missing token or a missing file id fails in the step
\* that calls it, without a remote request, and leaves the integrator not
\* connected.
C32_ConnectNeedsCredentials ==
  [][(figma.call = "none" /\ (~figma'.apiToken \/ ~figma'.fileId))
       => /\ figma'.call # "connect"
          /\ figma'.retry.calls = 0
          /\ ~figma'.isConnected
          /\ figma'.ret.op = "connect"
               => /\ figma'.ret.threw
                  /\ figma'.ret.error
                       = PlainError("Figma API token and file ID are required")]_vars

C32_Witness ==
  /\ figma.fileId
  /\ ~figma.apiToken
  /\ figma.ret.op = "connect"
  /\ figma.ret.threw
  /\ ~figma.isConnected
  /\ figma.lastConnect = "failed"

\* An upload whose addIcon has written its icon, and one whose addIcon has
\* returned.
HasSaved(q) ==
  /\ q.kind = "upload"
  /\ \/ q.pc \in {"metaList", "metaRead", "metaSave"}
     \/ q.pc = "done" /\ q.result = "ok"

HasSucceeded(q) == q.kind = "upload" /\ q.pc = "done" /\ q.result = "ok"

SameKeyRejects(q, o) ==
  /\ q.kind = "upload" /\ o.kind = "upload"
  /\ q.strategy = "reject" /\ o.strategy = "reject"
  /\ q.ns = o.ns /\ q.name = o.name

\* C33: of two interleaved addIcon calls for the same name under 'reject' at
\* most one succeeds, and the icon stored by one is not replaced by the other.
C33_RejectIsExclusive ==
  /\ [](\A r, o \in Reqs :
          (r # o /\ SameKeyRejects(req[r], req[o]))
            => ~(HasSucceeded(req[r]) /\ HasSucceeded(req[o])))
  /\ [][\A r, o \in Reqs :
          (r # o /\ SameKeyRejects(req[r], req[o]) /\ HasSaved(req[o]))
            => ~(req[r].pc = "saveIcon" /\ req'[r].pc = "metaList")]_vars

\* A mutating request that has completed: addIcon or removeIcon returned.
HasMutated(q) ==
  q.kind \in {"upload", "delete"} /\ q.pc = "done" /\ q.result = "ok"

\* C34: once two interleaved mutating operations on different names of one
\* namespace have both completed, the persisted metadata total is the number
\* of icons of the namespace.
C34_TotalAfterConcurrentMutations ==
  \A r, o \in Reqs :
    (/\ HasMutated(req[r]) /\ HasMutated(req[o])
     /\ req[r].ns = req[o].ns
     /\ req[r].name # req[o].name)
      => /\ meta[req[r].ns] # NoMeta
         /\ meta[req[r].ns].total = Cardinality(ListIcons(icons[req[r].ns]))

\* C35: an addIcon under 'overwrite' on an existing name that ends with an
\* SVGParseError leaves the version history of that name unchanged.
C35_FailedAddIconAddsNoSnapshot ==
  [][(/\ last'.op = "addIcon"
      /\ last' # last
      /\ AsksOverwrite(last')
      /\ icons[last'.ns][last'.name] # NoIcon
      /\ last'.result = "SVGParseError")
     => versions'[last'.ns][last'.name] = versions[last'.ns][last'.name]]_vars

\* The collection a store state gives: the icons that exist.
CollectionOf(directory) ==
  [n \in ListIcons(directory) |-> ReadIcon(directory, n)]

\* C36: the collection loadIconSet returns is the set of icons the namespace
\* held at one instant between the start of the call and its return.
C36_LoadIconSetIsSnapshot ==
  [][\A r \in Reqs :
       (req[r].kind = "read" /\ req[r].pc = "readIcon" /\ req'[r].pc = "done")
         => \E directory \in seen[r] : req[r].acc = CollectionOf(directory)]_vars

\* C37: every icon name a sync hands to the store is non-empty and consists
\* of lowercase letters, digits, hyphens and underscores only, whatever the
\* component's name and id, the fallback from the component id included.
C37_SyncedNamesAreValid ==
  (last.op = "addIcon" /\ "iconName" \in DOMAIN last)
    => /\ last.iconName # << >>
       /\ \A i \in DOMAIN last.iconName :
            last.iconName[i] \in Range(LowerCase)
              \cup {"0", "1", "2", "3", "4", "5", "6", "7", "8", "9", "-", "_"}

\* syncAllIcons has returned a result and its discovery had succeeded.
SyncReturnedAfterDiscovery ==
  /\ figma.ret.op = "syncAllIcons"
  /\ ~figma.ret.threw
  /\ \A i \in DOMAIN figma.ret.result.errors :
       figma.ret.result.errors[i].componentId # "N/A"

\* C38: when discovery succeeds with N components, the SyncResult returned
\* has success + failed = N: every discovered component is counted once, as
\* a success (applied or skipped) or as a failure.
C38_EveryComponentCounted ==
  SyncReturnedAfterDiscovery
    => figma.ret.result.success + figma.ret.result.failed
         = Len(figma.components)

C38_Witness ==
  /\ SyncReturnedAfterDiscovery
  /\ figma.incremental
  /\ Len(figma.components) = 2
  /\ figma.log = <<"skipped", "exportFailed">>
  /\ figma.ret.result.success = 1
  /\ figma.ret.result.failed = 1

SyncResultReturned == figma.ret.op = "syncAllIcons" /\ ~figma.ret.threw

\* C39: in every SyncResult returned by syncAllIcons, failed equals the
\* number of entries in errors.
C39_FailedCountsErrors ==
  SyncResultReturned
    => figma.ret.result.failed = Len(figma.ret.result.errors)

\* C39, amended: in every SyncResult returned by syncAllIcons, failed equals
\* the number of entries in errors that name a component; the entry 'N/A' of
\* a failed discovery is not counted.
C39_FailedCountsComponentErrors ==
  SyncResultReturned
    => figma.ret.result.failed
         = Cardinality({i \in DOMAIN figma.ret.result.errors :
                          figma.ret.result.errors[i].componentId # "N/A"})

C39_Witness ==
  /\ SyncResultReturned
  /\ figma.ret.result.failed = 2
  /\ Len(figma.ret.result.errors) = 2
  /\ figma.ret.result.errors[1].componentId # "N/A"

\* C40: the list discovery returns has at most one entry per underlying
\* component: no two entries have the same id, and no two instance entries
\* reference the same componentId.
C40_OneEntryPerComponent ==
  (last.op = "fetchIconComponents")
    => \A i, j \in DOMAIN last.result :
         i # j
           => /\ last.result[i].id # last.result[j].id
              /\ (/\ last.result[i].type = "INSTANCE"
                  /\ last.result[j].type = "INSTANCE")
                   => last.result[i].componentId # last.result[j].componentId

====
